---------------------------- MODULE Spec2Model ----------------------------
(***************************************************************************)
(* Beauty-Assistant: the stateful orchestration pipeline of                *)
(* product_tools_optimized_updated.py (memory tool handler, session store, *)
(* stream filter, agent loop, preamble stripping) and the ordinal          *)
(* resolution of product_tools_optimized.py.                               *)
(*                                                                         *)
(* Text is modelled as a sequence of lexemes.  Every lexeme stands for one *)
(* concrete string (LexLen gives its length in characters); the regular   *)
(* expressions of the source are translated to what they do on sequences   *)
(* of these lexemes.                                                       *)
(***************************************************************************)
EXTENDS Integers, Sequences, FiniteSets, TLC

VARIABLES
    \* ---- pure text functions (strip_memory_preamble) ----
    txtIn,      \* the text handed to strip_memory_preamble
    txtOut,     \* what it returned
    txtPc,      \* "ready" | "done"
    \* ---- the file store and the memory tool ----
    files,      \* path -> directory or file (text, record)
    toolReq,    \* the tool call the model has emitted and the handler has not run yet
    fsOp,       \* the tool call just run: its result and the paths it touched
    \* ---- one streamed model turn ----
    strm,       \* the turn's text, how much of it has arrived, whether a callback was given
    filt,       \* the state of _stream_with_filtering
    \* ---- run_with_memory_tool ----
    agent,      \* the locals of the agent loop and its position
    \* ---- SessionState objects ----
    inst,       \* instance -> session id and _cache
    \* ---- ordinal resolution (product_tools_optimized.py) ----
    ord,        \* the last call made, and what it returned or raised
    \* ---- product grouping (dedupe_by_product) ----
    grp,        \* the records retrieved, and what dedupe_by_product made of them
    \* ---- one turn of general_product_qna ----
    turn,       \* the locals of the turn and its position
    \* ---- the current list (get_current_list) ----
    lst,        \* the last get_current_list call: what the directory scan saw and what was returned
    \* ---- search_for_comparison ----
    cmp,        \* the entities, the index and the merged results
    \* ---- SpecSerial ----
    ser         \* the turns of each session id, one in flight at most

textVars   == <<txtIn, txtOut, txtPc>>
fsVars     == <<files, toolReq, fsOp>>
streamVars == <<strm, filt>>

vars == <<txtIn, txtOut, txtPc, files, toolReq, fsOp, strm, filt, agent, inst, ord, grp, turn, lst, cmp, ser>>

\* what the actions of each specification leave alone
notText   == <<files, toolReq, fsOp, strm, filt, agent, inst, ord, grp, turn, lst, cmp, ser>>
notFs     == <<txtIn, txtOut, txtPc, strm, filt, agent, inst, ord, grp, turn, lst, cmp, ser>>
notStream == <<txtIn, txtOut, txtPc, files, toolReq, fsOp, agent, inst, ord, grp, turn, lst, cmp, ser>>
notAgent  == <<txtIn, txtOut, txtPc, toolReq, fsOp, strm, filt, inst, ord, grp, turn, lst, cmp, ser>>
notSess   == <<txtIn, txtOut, txtPc, toolReq, fsOp, strm, filt, agent, ord, grp, turn, lst, cmp, ser>>
notOrd    == <<txtIn, txtOut, txtPc, toolReq, fsOp, strm, filt, agent, inst, grp, turn, lst, cmp, ser>>
notGrp    == <<txtIn, txtOut, txtPc, files, toolReq, fsOp, strm, filt, agent, inst, ord, turn, lst, cmp, ser>>
notTurn   == <<txtIn, txtOut, txtPc, toolReq, fsOp, strm, filt, ord, grp, lst, cmp, ser>>
notLst    == <<txtIn, txtOut, txtPc, toolReq, fsOp, strm, filt, agent, ord, grp, turn, cmp, ser>>
notCmp    == <<txtIn, txtOut, txtPc, files, toolReq, fsOp, strm, filt, agent, inst, ord, grp, turn, lst, ser>>
notSer    == <<txtIn, txtOut, txtPc, files, toolReq, fsOp, strm, filt, agent, inst, ord, grp, turn, lst, cmp>>
notSer_files == <<txtIn, txtOut, txtPc, toolReq, fsOp, strm, filt, agent, inst, ord, grp, turn, lst, cmp>>

-----------------------------------------------------------------------------
(***************************************************************************)
(* Lexemes.  Each name stands for the string given beside it.              *)
(*   LM "Let me"        UPD "update"      MEM "the memory"  FIRST "first"  *)
(*   DOT "."            SP " "            NL "\n"           COMMA ","      *)
(*   THEN "then"        AND "and"         SAVING "Saving"                  *)
(*   IVE "I've saved"   NOTES "notes"     GIVE "give you the answer"       *)
(*   COV "The product has great coverage" HRS "lasts 8 hours"              *)
(*   LAK "Lakme"        LONG (a 170-character clause without punctuation   *)
(*   or marker words)   ILLSAVE "I'll save this"  IMSAV "I'm saving"       *)
(*   ILLUPD "I'll update"  MEMUPD "Memory updated"  INEED "I need to"      *)
(*   MAXITER "Max iterations reached."                                     *)
(***************************************************************************)
LexLen(t) ==
    CASE t = "LM" -> 6   [] t = "UPD" -> 6     [] t = "MEM" -> 10
      [] t = "FIRST" -> 5 [] t = "DOT" -> 1    [] t = "SP" -> 1
      [] t = "NL" -> 1   [] t = "COMMA" -> 1   [] t = "THEN" -> 4
      [] t = "AND" -> 3  [] t = "SAVING" -> 6  [] t = "IVE" -> 10
      [] t = "NOTES" -> 5 [] t = "GIVE" -> 19  [] t = "COV" -> 30
      [] t = "HRS" -> 13 [] t = "LAK" -> 5     [] t = "LONG" -> 170
      [] t = "ILLSAVE" -> 14 [] t = "IMSAV" -> 10 [] t = "ILLUPD" -> 11
      [] t = "MEMUPD" -> 14 [] t = "INEED" -> 9 [] t = "MAXITER" -> 23
      [] t = "NOANSWER" -> 78

\* len(text)
RECURSIVE TextLen(_)
TextLen(s) == IF s = <<>> THEN 0 ELSE LexLen(Head(s)) + TextLen(Tail(s))

\* \s of the regular expressions, and what str.strip() removes
Ws == {"SP", "NL"}

Drop(s, n) == SubSeq(s, n + 1, Len(s))

StartsWith(s, p) == Len(p) <= Len(s) /\ SubSeq(s, 1, Len(p)) = p

RECURSIVE DropLeading(_, _)
DropLeading(s, S) ==
    IF s = <<>> \/ Head(s) \notin S THEN s ELSE DropLeading(Tail(s), S)

RECURSIVE DropTrailing(_, _)
DropTrailing(s, S) ==
    IF s = <<>> \/ s[Len(s)] \notin S THEN s
    ELSE DropTrailing(SubSeq(s, 1, Len(s) - 1), S)

\* str.strip()
StrStrip(s) == DropTrailing(DropLeading(s, Ws), Ws)

MinOf(S) == CHOOSE i \in S : \A j \in S : i <= j

-----------------------------------------------------------------------------
(***************************************************************************)
(* META_MARKER_PATTERN.search(text): the pattern is anchored at the start  *)
(* of the text, needs one of the openers there (i'll, i've, let me,        *)
(* saving, ...) and, later on the same line, one of the marker words       *)
(* (memory, note, save, record, update, check).                            *)
(***************************************************************************)
MetaOpeners == {"LM", "SAVING", "IVE", "ILLSAVE", "ILLUPD"}

\* openers whose own string holds a marker word after the opener
\* ("I've saved", "I'll save this", "I'll update")
MetaOpenersWithMarker == {"IVE", "ILLSAVE", "ILLUPD"}

\* lexemes whose string holds a marker word
MarkerWords == {"UPD", "MEM", "NOTES", "IVE", "ILLSAVE", "ILLUPD", "MEMUPD"}

META_MARKER_PATTERN(s) ==
    /\ s # <<>>
    /\ s[1] \in MetaOpeners
    /\ \/ s[1] \in MetaOpenersWithMarker
       \/ \E j \in 2..Len(s) :
             /\ s[j] \in MarkerWords
             /\ \A k \in 2..(j - 1) : s[k] # "NL"

\* is_meta_only_text
META_TEXT_THRESHOLD == 160

is_meta_only_text(text) ==
    LET t == StrStrip(text)
    IN  \/ t = <<>>
        \/ TextLen(t) <= META_TEXT_THRESHOLD /\ META_MARKER_PATTERN(t)

-----------------------------------------------------------------------------
(***************************************************************************)
(* PREAMBLE_STRIP_PATTERNS.  The first eight have the shape                *)
(*     ^ opener .*? (terminator | terminator | ...) \s*                    *)
(* the lazy .*? stops at the earliest place where a terminator starts (the *)
(* first alternative that matches there), never crosses a line break, and  *)
(* the match is removed together with the white space after it.            *)
(***************************************************************************)
NoCut == [ok |-> FALSE, rest |-> <<>>]

RECURSIVE LazyCut(_, _)
LazyCut(s, terms) ==
    IF s = <<>> THEN NoCut
    ELSE LET hit == {i \in DOMAIN terms : StartsWith(s, terms[i])}
         IN  IF hit # {}
             THEN [ok |-> TRUE,
                   rest |-> DropLeading(Drop(s, Len(terms[MinOf(hit)])), Ws)]
             ELSE IF Head(s) = "NL" THEN NoCut
             ELSE LazyCut(Tail(s), terms)

\* pattern.sub("", s) for one pattern of that shape
SubPattern(s, pat) ==
    LET open == {i \in DOMAIN pat.opens : StartsWith(s, pat.opens[i])}
    IN  IF open = {} THEN s
        ELSE LET cut == LazyCut(Drop(s, Len(pat.opens[MinOf(open)])), pat.terms)
             IN  IF cut.ok THEN cut.rest ELSE s

PREAMBLE_STRIP_PATTERNS ==
    << \* ^I'll save this.*?(?:and then |then |\.)\s*
       [opens |-> << <<"ILLSAVE">> >>,
        terms |-> << <<"AND", "SP", "THEN", "SP">>, <<"THEN", "SP">>, <<"DOT">> >>],
       \* ^(?:now\s+)?let me (?:save|update|check|note).*?(?:first|and then|\.)\s*
       [opens |-> << <<"LM", "SP", "UPD">>, <<"LM", "SP", "NOTES">> >>,
        terms |-> << <<"FIRST">>, <<"AND", "SP", "THEN">>, <<"DOT">> >>],
       \* ^I'm saving.*?(?:\.)\s*
       [opens |-> << <<"IMSAV">> >>, terms |-> << <<"DOT">> >>],
       \* ^Saving.*?(?:\.)\s*
       [opens |-> << <<"SAVING">> >>, terms |-> << <<"DOT">> >>],
       \* ^I'll update.*?(?:and |\.)\s*
       [opens |-> << <<"ILLUPD">> >>, terms |-> << <<"AND", "SP">>, <<"DOT">> >>],
       \* ^I've (?:saved|updated|noted).*?(?:\.)\s*
       [opens |-> << <<"IVE">> >>, terms |-> << <<"DOT">> >>],
       \* ^(?:Memory|Notes?) (?:updated|saved).*?(?:\.)\s*
       [opens |-> << <<"MEMUPD">> >>, terms |-> << <<"DOT">> >>],
       \* ^I need to.*?(?:first|\.)\s*
       [opens |-> << <<"INEED">> >>, terms |-> << <<"FIRST">>, <<"DOT">> >>] >>

\* [\s,;:\-] of the connector patterns and of the clean-up
LeadChars == {"SP", "NL", "COMMA"}

\* \.?\s* at the end of the two connector patterns
OptDotWs(s) ==
    DropLeading(IF s # <<>> /\ Head(s) = "DOT" THEN Tail(s) ELSE s, Ws)

\* ^[\s,;:\-]*(?:then|and\s+then)\s+(?:give|provide)\s+you\s+(?:the\s+)?
\*  (?:recommendations?|comparison|answer)\.?\s*
SubThenGive(s) ==
    LET a == DropLeading(s, LeadChars)
        afterThen ==
            IF a # <<>> /\ Head(a) = "THEN" THEN <<Tail(a)>>
            ELSE IF a # <<>> /\ Head(a) = "AND"
                    /\ Tail(a) # <<>> /\ Head(Tail(a)) \in Ws
                    /\ DropLeading(Tail(a), Ws) # <<>>
                    /\ Head(DropLeading(Tail(a), Ws)) = "THEN"
                 THEN <<Tail(DropLeading(Tail(a), Ws))>>
                 ELSE <<>>
    IN  IF afterThen = <<>> THEN s
        ELSE LET b == afterThen[1]
                 c == DropLeading(b, Ws)
             IN  IF b # <<>> /\ Head(b) \in Ws /\ c # <<>> /\ Head(c) = "GIVE"
                 THEN OptDotWs(Tail(c))
                 ELSE s

\* ^[\s,;:\-]*(?:give|let\s+me\s+give|i'?ll\s+give)\s+you\s+(?:the\s+)?
\*  (?:recommendations?|comparison|answer)\.?\s*
SubGive(s) ==
    LET a == DropLeading(s, LeadChars)
    IN  IF a # <<>> /\ Head(a) = "GIVE" THEN OptDotWs(Tail(a))
        ELSE IF a # <<>> /\ Head(a) = "LM"
                /\ Tail(a) # <<>> /\ Head(Tail(a)) \in Ws
                /\ DropLeading(Tail(a), Ws) # <<>>
                /\ Head(DropLeading(Tail(a), Ws)) = "GIVE"
             THEN OptDotWs(Tail(DropLeading(Tail(a), Ws)))
             ELSE s

RECURSIVE ApplyPatterns(_, _)
ApplyPatterns(s, i) ==
    IF i > Len(PREAMBLE_STRIP_PATTERNS) THEN s
    ELSE ApplyPatterns(SubPattern(s, PREAMBLE_STRIP_PATTERNS[i]), i + 1)

\* re.sub(r"^(?:then|and\s+then|and)\s+", "", s)
SubLeadingConnector(s) ==
    LET rest == IF s = <<>> THEN <<>> ELSE Tail(s)
        r    == DropLeading(rest, Ws)
    IN  IF s # <<>> /\ Head(s) = "THEN"
        THEN IF rest # <<>> /\ Head(rest) \in Ws THEN r ELSE s
        ELSE IF s # <<>> /\ Head(s) = "AND"
        THEN IF rest # <<>> /\ Head(rest) \in Ws
             THEN IF r # <<>> /\ Head(r) = "THEN"
                     /\ Tail(r) # <<>> /\ Head(Tail(r)) \in Ws
                  THEN DropLeading(Tail(r), Ws)
                  ELSE r
             ELSE s
        ELSE s

strip_memory_preamble(text) ==
    IF text = <<>> THEN <<>>
    ELSE LET r0 == StrStrip(text)
             r1 == SubGive(SubThenGive(ApplyPatterns(r0, 1)))
             r2 == DropLeading(r1, LeadChars)
             r3 == SubLeadingConnector(r2)
             r4 == DropLeading(r3, LeadChars)
         IN  StrStrip(r4)

-----------------------------------------------------------------------------
(***************************************************************************)
(* extract_meaningful_text: split at white space that follows a sentence   *)
(* end, drop the sentences the meta-marker pattern matches, join the rest  *)
(* with one blank.                                                         *)
(***************************************************************************)
\* re.split(r'(?<=[.!?])\s+', text)
RECURSIVE SplitSentences(_, _, _)
SplitSentences(s, cur, prevDot) ==
    IF s = <<>> THEN <<cur>>
    ELSE IF Head(s) \in Ws /\ prevDot
         THEN <<cur>> \o SplitSentences(DropLeading(s, Ws), <<>>, FALSE)
         ELSE SplitSentences(Tail(s), Append(cur, Head(s)), Head(s) = "DOT")

\* sep.join(parts)
RECURSIVE Join(_, _)
Join(parts, sep) ==
    IF parts = <<>> THEN <<>>
    ELSE IF Len(parts) = 1 THEN parts[1]
    ELSE parts[1] \o sep \o Join(Tail(parts), sep)

\* [s for s in sentences if not META_MARKER_PATTERN.search(s)]
RECURSIVE KeepMeaningful(_)
KeepMeaningful(parts) ==
    IF parts = <<>> THEN <<>>
    ELSE (IF META_MARKER_PATTERN(Head(parts)) THEN <<>> ELSE <<Head(parts)>>)
         \o KeepMeaningful(Tail(parts))

extract_meaningful_text(text) ==
    IF text = <<>> THEN <<>>
    ELSE StrStrip(Join(KeepMeaningful(SplitSentences(text, <<>>, FALSE)),
                       <<"SP">>))

-----------------------------------------------------------------------------
(***************************************************************************)
(* _assemble_final_response                                                *)
(***************************************************************************)
\* Python's  sub in text
Contains(text, sub) ==
    \E i \in 0..(Len(text) - Len(sub)) : SubSeq(text, i + 1, i + Len(sub)) = sub

\* additional.split('. ')
RECURSIVE SplitDotSpace(_, _)
SplitDotSpace(s, cur) ==
    IF s = <<>> THEN <<cur>>
    ELSE IF StartsWith(s, <<"DOT", "SP">>)
         THEN <<cur>> \o SplitDotSpace(Drop(s, 2), <<>>)
         ELSE SplitDotSpace(Tail(s), Append(cur, Head(s)))

FirstTwo(parts) == SubSeq(parts, 1, IF Len(parts) < 2 THEN Len(parts) ELSE 2)

\* the body of the loop over all_texts[1:]
AddText(final, additional) ==
    IF ~Contains(final, additional) /\ TextLen(additional) > 100
    THEN LET sentences == FirstTwo(SplitDotSpace(additional, <<>>))
         IN  IF ~\E k \in DOMAIN sentences :
                    /\ TextLen(sentences[k]) > 20
                    /\ Contains(final, sentences[k])
             THEN final \o <<"NL", "NL">> \o additional
             ELSE final
    ELSE final

RECURSIVE AddTexts(_, _)
AddTexts(final, more) ==
    IF more = <<>> THEN final
    ELSE AddTexts(AddText(final, Head(more)), Tail(more))

_assemble_final_response(all_texts, last_text) ==
    IF all_texts # <<>>
    THEN strip_memory_preamble(StrStrip(AddTexts(all_texts[1], Tail(all_texts))))
    ELSE strip_memory_preamble(extract_meaningful_text(last_text))

-----------------------------------------------------------------------------
(***************************************************************************)
(* _stream_with_filtering, one chunk at a time.  The filter's state is the *)
(* text streamed so far, the preview buffer, the two flags and the strings *)
(* handed to stream_callback so far.                                       *)
(***************************************************************************)
FilterInit ==
    [streamed_parts |-> <<>>, preview_buffer |-> <<>>,
     printing_enabled |-> FALSE, skip_initial_meta |-> TRUE, calls |-> <<>>]

\* stream_callback(x), when a callback was given
Callback(calls, hasCallback, x) == IF hasCallback THEN Append(calls, x) ELSE calls

\* the body of the loop, stripping the preamble of every chunk it forwards
FilterChunkStripping(f, chunk, hasCallback) ==
    LET g == [f EXCEPT !.streamed_parts = @ \o chunk,
                       !.preview_buffer = @ \o chunk]
        buf_txt == StrStrip(g.preview_buffer)
    IN  IF chunk = <<>> THEN g
        ELSE IF g.printing_enabled
        THEN [g EXCEPT !.calls = Callback(@, hasCallback, strip_memory_preamble(chunk))]
        ELSE IF g.skip_initial_meta /\ META_MARKER_PATTERN(buf_txt) THEN g
        ELSE LET h == [g EXCEPT !.skip_initial_meta = FALSE]
             IN  IF buf_txt # <<>>
                    /\ (\/ TextLen(buf_txt) > META_TEXT_THRESHOLD
                        \/ ~META_MARKER_PATTERN(buf_txt))
                 THEN LET clean_buf == strip_memory_preamble(buf_txt)
                      IN  IF clean_buf # <<>>
                          THEN [h EXCEPT !.calls = Callback(@, hasCallback, clean_buf),
                                         !.printing_enabled = TRUE,
                                         !.preview_buffer = <<>>]
                          ELSE [h EXCEPT !.preview_buffer = <<>>]
                 ELSE h

\* the body of  for chunk in stream.text_stream
FilterChunk(f, chunk, hasCallback) ==
    LET g == [f EXCEPT !.streamed_parts = @ \o chunk,
                       !.preview_buffer = @ \o chunk]
        buf_txt == StrStrip(g.preview_buffer)
    IN  IF chunk = <<>> THEN g
        ELSE IF g.printing_enabled
        THEN [g EXCEPT !.calls = Callback(@, hasCallback, chunk)]
        ELSE IF g.skip_initial_meta /\ META_MARKER_PATTERN(buf_txt) THEN g
        ELSE LET h == [g EXCEPT !.skip_initial_meta = FALSE]
             IN  IF buf_txt # <<>>
                    /\ (\/ TextLen(buf_txt) > META_TEXT_THRESHOLD
                        \/ ~META_MARKER_PATTERN(buf_txt))
                 THEN LET clean_buf == strip_memory_preamble(buf_txt)
                      IN  IF clean_buf # <<>>
                          THEN [h EXCEPT !.calls = Callback(@, hasCallback, clean_buf),
                                         !.printing_enabled = TRUE,
                                         !.preview_buffer = <<>>]
                          ELSE [h EXCEPT !.preview_buffer = <<>>]
                 ELSE h

RECURSIVE FilterChunks(_, _, _)
FilterChunks(f, chunks, hasCallback) ==
    IF chunks = <<>> THEN f
    ELSE FilterChunks(FilterChunk(f, Head(chunks), hasCallback), Tail(chunks),
                      hasCallback)

\* the text _stream_with_filtering returns
StreamedText(f) == StrStrip(f.streamed_parts)

\* what _stream_with_filtering returns, and the strings it has forwarded
StreamResult(f) ==
    [text |-> StreamedText(f), printing_enabled |-> f.printing_enabled,
     calls |-> f.calls]

\* _stream_with_filtering(stream, stream_callback) for a whole stream
_stream_with_filtering(chunks, hasCallback) ==
    StreamResult(FilterChunks(FilterInit, chunks, hasCallback))

-----------------------------------------------------------------------------
(***************************************************************************)
(* The file store.  A file or directory name is <<dot, stem, suffix>> (the *)
(* name is the three strings joined, dot being "." for a hidden name), so  *)
(* that Path.stem, Path.suffix and with_name are what pathlib computes.  A *)
(* path is the sequence of names from the working directory down.  A path  *)
(* string handed to the tool is a sequence of such names and separators.   *)
(***************************************************************************)
Sep      == <<"", "/", "">>
DotDot   == <<"", "..", "">>
MemWord  == <<"", "memories", "">>     \* the word of the virtual prefix
NotesMd  == <<"", "notes", ".md">>
SubDir   == <<"", "sub", "">>
User1    == <<"", "user_1", "">>

\* SESSION_STATE_FILE, LIST_INDEX_FILE
SESSION_STATE_FILE == <<"", "session_state", ".json">>
LIST_INDEX_FILE    == <<"", "list_index", ".json">>

\* config.MEMORY_DIR, default ./memories, below the working directory <<>>
MEMORY_DIR == <<MemWord>>

\* config.MAX_MEMORY_FILE_SIZE
MAX_MEMORY_FILE_SIZE == 102400

\* the cap of _view
VIEW_CAP == 3000

SessionIds == {"global", "user_1"}

\* SessionState.__init__: the session's directory
SessionMemoryDir(session_id) ==
    IF session_id # "global" THEN Append(MEMORY_DIR, <<"", session_id, "">>)
    ELSE MEMORY_DIR

DirNode == [kind |-> "dir", text |-> <<>>, data |-> <<>>]
FileNode(text, data) == [kind |-> "file", text |-> text, data |-> data]

IsPrefix(p, q) == Len(p) <= Len(q) /\ SubSeq(q, 1, Len(p)) = p
Parent(p) == SubSeq(p, 1, Len(p) - 1)
PathName(p) == p[Len(p)]
\* Path.with_name
with_name(p, name) == Append(Parent(p), name)

Exists(fs, p) == p \in DOMAIN fs
IsFile(fs, p) == p \in DOMAIN fs /\ fs[p].kind = "file"
IsDir(fs, p)  == p \in DOMAIN fs /\ fs[p].kind = "dir"

\* the file store after MemoryToolHandler.__init__ / SessionState.__init__ of both
\* sessions: the working directory, MEMORY_DIR and the session directory
FilesInit ==
    [p \in {<<>>, MEMORY_DIR, SessionMemoryDir("user_1")} |-> DirNode]

\* note lexemes and their sizes in bytes; "blob" stands for a text of exactly
\* MAX_MEMORY_FILE_SIZE bytes
NoteBytes(t) == IF t = "blob" THEN MAX_MEMORY_FILE_SIZE ELSE 1

RECURSIVE ByteLen(_)
ByteLen(s) == IF s = <<>> THEN 0 ELSE NoteBytes(Head(s)) + ByteLen(Tail(s))

-----------------------------------------------------------------------------
(***************************************************************************)
(* MemoryToolHandler                                                       *)
(***************************************************************************)
\* str.lstrip("/")
LstripSep(s) == DropLeading(s, {Sep})

\* the components of a relative path string: pathlib drops empty components
RECURSIVE Components(_)
Components(s) ==
    IF s = <<>> THEN <<>>
    ELSE IF Head(s) = Sep THEN Components(Tail(s))
    ELSE <<Head(s)>> \o Components(Tail(s))

Invalid(error) == [ok |-> FALSE, local_path |-> <<>>, error |-> error]

\* path validation without the check for ".."
_validate_path_any_component(memory_dir, path_str) ==
    IF path_str = <<>> THEN Invalid("Path cannot be empty")
    ELSE [ok |-> TRUE, error |-> "",
          local_path |-> memory_dir \o Components(
                             IF StartsWith(path_str, <<Sep, MemWord>>)
                             THEN LstripSep(Drop(path_str, 2))
                             ELSE IF StartsWith(path_str, <<MemWord>>)
                             THEN LstripSep(Drop(path_str, 1))
                             ELSE LstripSep(path_str))]

_validate_path(memory_dir, path_str) ==
    IF path_str = <<>> THEN Invalid("Path cannot be empty")
    ELSE LET relative_part ==
                 IF StartsWith(path_str, <<Sep, MemWord>>)
                 THEN LstripSep(Drop(path_str, 2))
                 ELSE IF StartsWith(path_str, <<MemWord>>)
                 THEN LstripSep(Drop(path_str, 1))
                 ELSE LstripSep(path_str)
         IN  IF \E i \in DOMAIN path_str : path_str[i] = DotDot
             THEN Invalid("Path traversal not allowed")
             ELSE LET local_path ==
                          IF relative_part # <<>>
                          THEN memory_dir \o Components(relative_part)
                          ELSE memory_dir
                  IN  IF ~IsPrefix(memory_dir, local_path)
                      THEN Invalid("Path escapes memory directory")
                      ELSE [ok |-> TRUE, local_path |-> local_path, error |-> ""]

\* what a handler returns: the tool result, the file store after the call, and the
\* paths whose content it read or listed (reads), wrote or created (writes), or
\* removed (removes)
Outcome(kind, detail, fs, reads, writes, removes) ==
    [kind |-> kind, detail |-> detail, files |-> fs,
     reads |-> reads, writes |-> writes, removes |-> removes]

Unchanged(kind, detail, fs) == Outcome(kind, detail, fs, {}, {}, {})

PathArg(tool_input, default) ==
    IF tool_input.has_path THEN tool_input.path ELSE default

\* the names a directory listing shows
Listing(fs, dir) ==
    {PathName(q) : q \in {q \in DOMAIN fs : Len(q) = Len(dir) + 1
                                                /\ IsPrefix(dir, q)
                                                /\ PathName(q)[1] # "."}}

_view(fs, memory_dir, tool_input) ==
    LET v == _validate_path(memory_dir, PathArg(tool_input, <<Sep, MemWord>>))
        p == v.local_path
    IN  IF ~v.ok THEN Unchanged("Error", v.error, fs)
        ELSE IF ~Exists(fs, p) THEN Unchanged("Path not found", <<>>, fs)
        ELSE IF IsDir(fs, p)
        THEN Outcome(IF Listing(fs, p) # {} THEN "Files" ELSE "Directory empty",
                     Listing(fs, p), fs, {p}, {}, {})
        ELSE Outcome(IF ByteLen(fs[p].text) > VIEW_CAP THEN "Content truncated"
                     ELSE "Content",
                     fs[p], fs, {p}, {}, {})

\* f"{stem}_{i}{suffix}"
Versioned(name, i) == <<name[1], name[2] \o "_" \o ToString(i), name[3]>>

\* the first candidate of  while True: candidate = ...with_name(f"{stem}_{i}{suffix}")
RECURSIVE FirstFree(_, _, _)
FirstFree(fs, p, i) ==
    LET candidate == with_name(p, Versioned(PathName(p), i))
    IN  IF ~Exists(fs, candidate) THEN candidate
        ELSE FirstFree(fs, p, i + 1)

\* Path.mkdir(parents=True, exist_ok=True): fails when a component is a file
MkdirFails(fs, dir) ==
    \E n \in 0..Len(dir) : IsFile(fs, SubSeq(dir, 1, n))

Mkdirs(fs, dir) ==
    LET new == {SubSeq(dir, 1, n) : n \in 0..Len(dir)} \ DOMAIN fs
    IN  [q \in DOMAIN fs \cup new |-> IF q \in new THEN DirNode ELSE fs[q]]

WriteFile(fs, p, node) ==
    [q \in DOMAIN fs \cup {p} |-> IF q = p THEN node ELSE fs[q]]

\* _create writing at the path it was given, whether or not a file is there
_create_overwrite(fs, memory_dir, tool_input) ==
    LET v == _validate_path(memory_dir, PathArg(tool_input, <<>>))
        local_path == v.local_path
    IN  IF ~v.ok THEN Unchanged("Error", v.error, fs)
        ELSE IF ByteLen(tool_input.file_text) > MAX_MEMORY_FILE_SIZE
        THEN Unchanged("Error", "File too large", fs)
        ELSE IF MkdirFails(fs, Parent(local_path)) \/ IsDir(fs, local_path)
        THEN Unchanged("Error", "IOError", fs)
        ELSE LET made == Mkdirs(fs, Parent(local_path))
             IN  Outcome("Created", local_path,
                         WriteFile(made, local_path,
                                   FileNode(tool_input.file_text, <<>>)),
                         {}, (DOMAIN made \ DOMAIN fs) \cup {local_path}, {})

\* _create making the parent directories before it looks at the size
_create_mkdir_first(fs, memory_dir, tool_input) ==
    LET v == _validate_path(memory_dir, PathArg(tool_input, <<>>))
        local_path == v.local_path
    IN  IF ~v.ok THEN Unchanged("Error", v.error, fs)
        ELSE IF MkdirFails(fs, Parent(local_path))
        THEN Unchanged("Error", "IOError", fs)
        ELSE LET made == Mkdirs(fs, Parent(local_path))
                 target_path ==
                     IF Exists(made, local_path) THEN FirstFree(made, local_path, 1)
                     ELSE local_path
             IN  IF ByteLen(tool_input.file_text) > MAX_MEMORY_FILE_SIZE
                 THEN Outcome("Error", "File too large", made,
                              {}, DOMAIN made \ DOMAIN fs, {})
                 ELSE Outcome("Created", target_path,
                              WriteFile(made, target_path,
                                        FileNode(tool_input.file_text, <<>>)),
                              {}, (DOMAIN made \ DOMAIN fs) \cup {target_path}, {})

_create(fs, memory_dir, tool_input) ==
    LET v == _validate_path(memory_dir, PathArg(tool_input, <<>>))
        local_path == v.local_path
    IN  IF ~v.ok THEN Unchanged("Error", v.error, fs)
        ELSE IF ByteLen(tool_input.file_text) > MAX_MEMORY_FILE_SIZE
        THEN Unchanged("Error", "File too large", fs)
        ELSE IF MkdirFails(fs, Parent(local_path))
        THEN Unchanged("Error", "IOError", fs)
        ELSE LET made == Mkdirs(fs, Parent(local_path))
                 target_path ==
                     IF Exists(made, local_path) THEN FirstFree(made, local_path, 1)
                     ELSE local_path
             IN  Outcome("Created", target_path,
                         WriteFile(made, target_path,
                                   FileNode(tool_input.file_text, <<>>)),
                         {}, (DOMAIN made \ DOMAIN fs) \cup {target_path}, {})

\* the place of the first occurrence of old in text, 0 when there is none
FindFirst(text, old) ==
    LET at == {i \in 1..(Len(text) - Len(old) + 1) :
                  SubSeq(text, i, i + Len(old) - 1) = old}
    IN  IF at = {} THEN 0 ELSE MinOf(at)

\* content.replace(old_str, new_str, 1); a file's content is its text followed by
\* its serialised record, in which no note lexeme occurs
ReplaceFirst(text, old, new) ==
    LET i == FindFirst(text, old)
    IN  SubSeq(text, 1, i - 1) \o new \o SubSeq(text, i + Len(old), Len(text))

\* _str_replace editing the file in place
_str_replace_in_place(fs, memory_dir, tool_input) ==
    LET v == _validate_path(memory_dir, PathArg(tool_input, <<>>))
        local_path == v.local_path
    IN  IF ~v.ok THEN Unchanged("Error", v.error, fs)
        ELSE IF ~Exists(fs, local_path) THEN Unchanged("File not found", <<>>, fs)
        ELSE IF IsDir(fs, local_path)
        THEN Outcome("Error", "IOError", fs, {local_path}, {}, {})
        ELSE IF FindFirst(fs[local_path].text, tool_input.old_str) = 0
        THEN Outcome("String not found", <<>>, fs, {local_path}, {}, {})
        ELSE Outcome("Created", local_path,
                     WriteFile(fs, local_path,
                               FileNode(ReplaceFirst(fs[local_path].text,
                                                     tool_input.old_str,
                                                     tool_input.new_str),
                                        fs[local_path].data)),
                     {local_path}, {local_path}, {})

_str_replace(fs, memory_dir, tool_input) ==
    LET v == _validate_path(memory_dir, PathArg(tool_input, <<>>))
        local_path == v.local_path
    IN  IF ~v.ok THEN Unchanged("Error", v.error, fs)
        ELSE IF ~Exists(fs, local_path) THEN Unchanged("File not found", <<>>, fs)
        ELSE IF IsDir(fs, local_path)
        THEN Outcome("Error", "IOError", fs, {local_path}, {}, {})
        ELSE LET content == fs[local_path]
             IN  IF FindFirst(content.text, tool_input.old_str) = 0
                 THEN Outcome("String not found", <<>>, fs, {local_path}, {}, {})
                 ELSE LET updated ==
                              FileNode(ReplaceFirst(content.text, tool_input.old_str,
                                                    tool_input.new_str),
                                       content.data)
                          candidate == FirstFree(fs, local_path, 1)
                      IN  Outcome("Created", candidate,
                                  WriteFile(fs, candidate, updated),
                                  {local_path}, {candidate}, {})

Unlink(fs, p) == [q \in DOMAIN fs \ {p} |-> fs[q]]

\* _delete removing whatever is at the path, a directory with all it holds
_delete_tree(fs, memory_dir, tool_input) ==
    LET v == _validate_path(memory_dir, PathArg(tool_input, <<>>))
        local_path == v.local_path
        below == {q \in DOMAIN fs : IsPrefix(local_path, q)}
    IN  IF ~v.ok THEN Unchanged("Error", v.error, fs)
        ELSE IF local_path = memory_dir THEN Unchanged("Cannot delete root", <<>>, fs)
        ELSE IF ~Exists(fs, local_path) THEN Unchanged("Not found", <<>>, fs)
        ELSE Outcome("Deleted", local_path, [q \in DOMAIN fs \ below |-> fs[q]],
                     {}, {}, below)

_delete(fs, memory_dir, tool_input) ==
    LET v == _validate_path(memory_dir, PathArg(tool_input, <<>>))
        local_path == v.local_path
    IN  IF ~v.ok THEN Unchanged("Error", v.error, fs)
        ELSE IF local_path = memory_dir THEN Unchanged("Cannot delete root", <<>>, fs)
        ELSE IF ~Exists(fs, local_path) THEN Unchanged("Not found", <<>>, fs)
        ELSE IF IsFile(fs, local_path)
        THEN Outcome("Deleted", local_path, Unlink(fs, local_path),
                     {}, {}, {local_path})
        ELSE Unchanged("Not a file", <<>>, fs)

handle(fs, memory_dir, tool_input) ==
    CASE tool_input.command = "view"        -> _view(fs, memory_dir, tool_input)
      [] tool_input.command = "create"      -> _create(fs, memory_dir, tool_input)
      [] tool_input.command = "str_replace" -> _str_replace(fs, memory_dir, tool_input)
      [] tool_input.command = "delete"      -> _delete(fs, memory_dir, tool_input)
      [] OTHER -> Unchanged("Unknown command", tool_input.command, fs)

\* MemoryToolHandler of product_tools_optimized.py, which main_optimized.py
\* imports: _validate_path is the same text as above; _create and
\* _str_replace write at the path they were given
optimized_create(fs, memory_dir, tool_input) ==
    LET v == _validate_path(memory_dir, PathArg(tool_input, <<>>))
        local_path == v.local_path
    IN  IF ~v.ok THEN Unchanged("Error", v.error, fs)
        ELSE IF ByteLen(tool_input.file_text) > MAX_MEMORY_FILE_SIZE
        THEN Unchanged("Error", "File too large", fs)
        ELSE IF MkdirFails(fs, Parent(local_path)) \/ IsDir(fs, local_path)
        THEN Unchanged("Error", "IOError", fs)
        ELSE LET made == Mkdirs(fs, Parent(local_path))
             IN  Outcome("Created", local_path,
                         WriteFile(made, local_path,
                                   FileNode(tool_input.file_text, <<>>)),
                         {}, (DOMAIN made \ DOMAIN fs) \cup {local_path}, {})

optimized_str_replace(fs, memory_dir, tool_input) ==
    LET v == _validate_path(memory_dir, PathArg(tool_input, <<>>))
        local_path == v.local_path
    IN  IF ~v.ok THEN Unchanged("Error", v.error, fs)
        ELSE IF ~Exists(fs, local_path) THEN Unchanged("File not found", <<>>, fs)
        ELSE IF IsDir(fs, local_path)
        THEN Outcome("Error", "IOError", fs, {local_path}, {}, {})
        ELSE LET content == fs[local_path]
             IN  IF FindFirst(content.text, tool_input.old_str) = 0
                 THEN Outcome("String not found", <<>>, fs, {local_path}, {}, {})
                 ELSE Outcome("Updated", local_path,
                              WriteFile(fs, local_path,
                                        FileNode(ReplaceFirst(content.text,
                                                              tool_input.old_str,
                                                              tool_input.new_str),
                                                 content.data)),
                              {local_path}, {local_path}, {})

ToolInput(command, has_path, path, file_text, old_str, new_str) ==
    [command |-> command, has_path |-> has_path, path |-> path,
     file_text |-> file_text, old_str |-> old_str, new_str |-> new_str]

-----------------------------------------------------------------------------
(***************************************************************************)
(* SessionState (product_tools_optimized_updated.py).  session_state.json  *)
(* and list_index.json are files of the session's directory; a file that   *)
(* json.loads reads holds its value in the node's data, any other file     *)
(* holds none.  None is written "None"; a keyword argument that was not    *)
(* passed is Absent.                                                       *)
(***************************************************************************)
None   == "None"
Absent == "<absent>"

\* bool(v) for the values of a record
Truthy(v) == v \notin {None, Absent, ""}

\* json.dumps(value) written by write_text
JsonFile(value) == FileNode(<<"json">>, <<value>>)

\* json.loads(path.read_text()) succeeds
ReadsJson(fs, p) == Exists(fs, p) /\ IsFile(fs, p) /\ fs[p].data # <<>>

\* the value json.loads returned is a dict; a JSON array is written <<>>
IsDict(value) == value # <<>>

\* the record load() makes when there is nothing to read, and clear() writes
DefaultRecord ==
    [current_product |-> None, current_brand |-> None, current_category |-> None,
     last_query |-> None, last_answer_preview |-> None, last_list_file |-> None,
     turn_count |-> 0, conversation_history |-> <<>>]

\* SessionState(session_id)
SessionState(session_id) == [session_id |-> session_id, cache |-> <<>>, raised |-> ""]

_state_path(self) == Append(SessionMemoryDir(self.session_id), SESSION_STATE_FILE)

\* SessionState.load: the cache if there is one, else the file, else the default
load(fs, self) ==
    IF self.cache # <<>> THEN self.cache[1]
    ELSE IF ReadsJson(fs, _state_path(self)) THEN fs[_state_path(self)].data[1]
    ELSE DefaultRecord

\* SessionState.save: write_text, an IOError (the path is a directory) is logged
save(fs, self) ==
    IF self.cache = <<>> \/ IsDir(fs, _state_path(self)) THEN fs
    ELSE WriteFile(fs, _state_path(self), JsonFile(self.cache[1]))

\* the keyword arguments of update
Kwargs(current_product, current_brand, current_category, last_query,
       last_answer_preview) ==
    [current_product |-> current_product, current_brand |-> current_brand,
     current_category |-> current_category, last_query |-> last_query,
     last_answer_preview |-> last_answer_preview]

\* dict.update for one key
Updated(old, new) == IF new = Absent THEN old ELSE new

\* the history entry of update: query, topic, product when given and truthy
Entry(state, kwargs) ==
    [query   |-> IF Truthy(kwargs.last_query) THEN kwargs.last_query ELSE None,
     topic   |-> IF Truthy(kwargs.current_category) THEN kwargs.current_category ELSE None,
     product |-> IF Truthy(kwargs.current_product) THEN kwargs.current_product ELSE None,
     turn    |-> state.turn_count + 1]

\* update that leaves turn_count as it was
update_keeping_turn_count(state, kwargs) ==
    [state EXCEPT !.current_product = Updated(@, kwargs.current_product),
                  !.current_brand = Updated(@, kwargs.current_brand),
                  !.current_category = Updated(@, kwargs.current_category),
                  !.last_query = Updated(@, kwargs.last_query),
                  !.last_answer_preview = Updated(@, kwargs.last_answer_preview)]

\* SessionState.update, on the record load() returned: the new record
update(state, kwargs) ==
    [state EXCEPT
        !.conversation_history =
            IF \/ Truthy(kwargs.last_query) \/ Truthy(kwargs.current_category)
               \/ Truthy(kwargs.current_product)
            THEN Append(@, Entry(state, kwargs)) ELSE @,
        !.current_product = Updated(@, kwargs.current_product),
        !.current_brand = Updated(@, kwargs.current_brand),
        !.current_category = Updated(@, kwargs.current_category),
        !.last_query = Updated(@, kwargs.last_query),
        !.last_answer_preview = Updated(@, kwargs.last_answer_preview),
        !.turn_count = @ + 1]

_list_index_path(session_id) == Append(SessionMemoryDir(session_id), LIST_INDEX_FILE)

EmptyListIndex == [lists |-> <<>>, current_list_id |-> None]

\* SessionState.get_list_index
get_list_index(fs, session_id) ==
    IF ReadsJson(fs, _list_index_path(session_id))
    THEN fs[_list_index_path(session_id)].data[1]
    ELSE EmptyListIndex

\* f"list_{n}"
ListId(n) == "list_" \o ToString(n)

ListEntry(id, topic, items, source_file, created_at) ==
    [id |-> id, topic |-> topic, items |-> items, source_file |-> source_file,
     created_at |-> created_at]

\* idx with the new entry appended and made current
WithEntry(idx, entry) ==
    [idx EXCEPT !.lists = Append(@, entry), !.current_list_id = entry.id]

\* idx with the new entry as its only entry
WithOnlyEntry(idx, entry) ==
    [idx EXCEPT !.lists = <<entry>>, !.current_list_id = entry.id]

\* save_list_index that keeps nothing but the new list
save_list_index_replacing(fs, session_id, items, topic, source_file, now) ==
    IF IsDir(fs, _list_index_path(session_id)) THEN fs
    ELSE WriteFile(fs, _list_index_path(session_id),
                   JsonFile(WithOnlyEntry(
                       get_list_index(fs, session_id),
                       ListEntry(ListId(Len(get_list_index(fs, session_id).lists) + 1),
                                 topic, items, source_file, now))))

\* save_list_index that numbers every list "list_1"
save_list_index_one_id(fs, session_id, items, topic, source_file, now) ==
    IF IsDir(fs, _list_index_path(session_id)) THEN fs
    ELSE WriteFile(fs, _list_index_path(session_id),
                   JsonFile(WithEntry(
                       get_list_index(fs, session_id),
                       ListEntry(ListId(1), topic, items, source_file, now))))

\* SessionState.save_list_index; now is what time.strftime returns
save_list_index(fs, session_id, items, topic, source_file, now) ==
    IF IsDir(fs, _list_index_path(session_id)) THEN fs
    ELSE WriteFile(fs, _list_index_path(session_id),
                   JsonFile(WithEntry(
                       get_list_index(fs, session_id),
                       ListEntry(ListId(Len(get_list_index(fs, session_id).lists) + 1),
                                 topic, items, source_file, now))))

\* topic or "recent list"
OrRecent(topic) == IF Truthy(topic) THEN topic ELSE "recent list"

\* f.name
FileName(name) == name[1] \o name[2] \o name[3]

\* the note files of a session directory
SessionNoteMd == <<"", "session_note", ".md">>
PicksMd       == <<"", "picks", ".md">>
HiddenMd      == <<".", "draft", ".md">>

\* the lines of a note, one lexeme each: "TOPIC" is "Topic: lipsticks", "N1" is
\* "1. **Lakme 9to5** - long wear", "N2" is "2) Nykaa Matte", "N3" is "3." and
\* every other lexeme a line of prose
NoteTopic(line) == IF line = "TOPIC" THEN "lipsticks" ELSE None
NoteItem(line) ==
    CASE line = "N1" -> "Lakme 9to5"
      [] line = "N2" -> "Nykaa Matte"
      [] OTHER -> ""

\* the loop over text.splitlines() of get_note_items and get_latest_note_items
RECURSIVE ParseNote(_, _, _)
ParseNote(lines, topic, items) ==
    IF lines = <<>> THEN [topic |-> topic, items |-> items]
    ELSE ParseNote(Tail(lines),
                   IF ~Truthy(topic) THEN NoteTopic(Head(lines)) ELSE topic,
                   IF NoteItem(Head(lines)) # "" THEN Append(items, NoteItem(Head(lines)))
                   ELSE items)

\* SessionState.get_note_items: session_note.md
get_note_items(fs, session_id) ==
    LET note_path == Append(SessionMemoryDir(session_id), SessionNoteMd)
    IN  IF ~IsFile(fs, note_path) THEN [topic |-> None, items |-> <<>>]
        ELSE ParseNote(fs[note_path].text, None, <<>>)

\* the files get_latest_note_items looks at: *.md, not hidden, in the directory
NoteFiles(fs, session_id) ==
    {q \in DOMAIN fs : /\ Len(q) = Len(SessionMemoryDir(session_id)) + 1
                       /\ IsPrefix(SessionMemoryDir(session_id), q)
                       /\ IsFile(fs, q)
                       /\ PathName(q)[3] = ".md"
                       /\ PathName(q)[1] # "."}

\* for f in iterdir(): if mtime > latest_mtime: latest_path = f
\* (<<>> stands for no path, 0 for the -1.0 no mtime reaches)
RECURSIVE LatestNote(_, _, _, _)
LatestNote(order, mtime, latest_path, latest_mtime) ==
    IF order = <<>> THEN latest_path
    ELSE IF mtime[Head(order)] > latest_mtime
    THEN LatestNote(Tail(order), mtime, Head(order), mtime[Head(order)])
    ELSE LatestNote(Tail(order), mtime, latest_path, latest_mtime)

\* SessionState.get_latest_note_items; order is the order in which iterdir()
\* gives the note files and mtime their modification times
get_latest_note_items(fs, order, mtime) ==
    LET latest_path == LatestNote(order, mtime, <<>>, 0)
    IN  IF latest_path = <<>> THEN [topic |-> None, items |-> <<>>, fname |-> None]
        ELSE [topic |-> ParseNote(fs[latest_path].text, None, <<>>).topic,
              items |-> ParseNote(fs[latest_path].text, None, <<>>).items,
              fname |-> FileName(PathName(latest_path))]

\* get_current_list that looks at the notes first
get_current_list_notes_first(fs, session_id, order, mtime) ==
    LET idx == get_list_index(fs, session_id)
        cur == idx.current_list_id
        note == get_note_items(fs, session_id)
        latest == get_latest_note_items(fs, order, mtime)
        found == {k \in 1..Len(idx.lists) : idx.lists[k].id = cur}
    IN  IF note.items # <<>>
        THEN <<[id |-> "note_current", topic |-> OrRecent(note.topic),
                items |-> note.items, source_file |-> FileName(SessionNoteMd)]>>
        ELSE IF latest.items # <<>>
        THEN <<[id |-> "note_current", topic |-> OrRecent(latest.topic),
                items |-> latest.items, source_file |-> latest.fname]>>
        ELSE IF ~Truthy(cur) \/ found = {} THEN <<>>
        ELSE <<idx.lists[MinOf(found)]>>

\* SessionState.get_current_list: <<the list>>, or <<>> for None
get_current_list(fs, session_id, order, mtime) ==
    LET idx == get_list_index(fs, session_id)
        cur == idx.current_list_id
        note == get_note_items(fs, session_id)
        latest == get_latest_note_items(fs, order, mtime)
        found == {k \in 1..Len(idx.lists) : idx.lists[k].id = cur}
    IN  IF ~Truthy(cur)
        THEN IF note.items # <<>>
             THEN <<[id |-> "note_current", topic |-> OrRecent(note.topic),
                     items |-> note.items, source_file |-> FileName(SessionNoteMd)]>>
             ELSE IF latest.items # <<>>
             THEN <<[id |-> "note_current", topic |-> OrRecent(latest.topic),
                     items |-> latest.items, source_file |-> latest.fname]>>
             ELSE <<>>
        ELSE IF found = {} THEN <<>>
        ELSE <<idx.lists[MinOf(found)]>>

-----------------------------------------------------------------------------
(***************************************************************************)
(* Ordinal resolution (product_tools_optimized.py).  There list_index.json *)
(* is written by save_list_index and by the model through the memory tool; *)
(* the JSON object it holds is modelled by the set of its keys and their   *)
(* values.  SessionState defines get_list_index twice; the second          *)
(* definition is the one the class ends up with.                           *)
(***************************************************************************)
IndexObject(keys, topic, items, source_file, lists, current_list_id) ==
    [keys |-> keys, topic |-> topic, items |-> items, source_file |-> source_file,
     lists |-> lists, current_list_id |-> current_list_id]

\* {"topic": ..., "items": [...], "source_file": ...}
LegacyIndex(topic, items, source_file) ==
    IndexObject({"topic", "items", "source_file"}, topic, items, source_file, <<>>, None)

\* {"lists": [], "current_list_id": null}
EmptyIndexObject == IndexObject({"lists", "current_list_id"}, None, <<>>, None, <<>>, None)

\* SessionState.get_list_index (the second definition): <<>> stands for None
Old_get_list_index(fs, session_id) ==
    IF ReadsJson(fs, _list_index_path(session_id))
    THEN <<fs[_list_index_path(session_id)].data[1]>>
    ELSE <<>>

\* idx.get("lists", []), idx.get("items", []), idx.get("source_file")
GetLists(idx) == IF "lists" \in idx.keys THEN idx.lists ELSE <<>>
GetItems(idx) == IF "items" \in idx.keys THEN idx.items ELSE <<>>
GetSourceFile(idx) == IF "source_file" \in idx.keys THEN idx.source_file ELSE None

\* idx["lists"] = lists; idx["current_list_id"] = new_id
WithList(idx, entry) ==
    [idx EXCEPT !.keys = @ \cup {"lists", "current_list_id"},
                !.lists = Append(GetLists(idx), entry),
                !.current_list_id = entry.id]

\* SessionState.save_list_index: None.get raises AttributeError
Old_save_list_index(fs, session_id, items, topic, source_file, now) ==
    IF Old_get_list_index(fs, session_id) = <<>>
    THEN [files |-> fs, raised |-> "AttributeError"]
    ELSE [files |-> WriteFile(fs, _list_index_path(session_id),
                       JsonFile(WithList(
                           Old_get_list_index(fs, session_id)[1],
                           ListEntry(ListId(Len(GetLists(
                                         Old_get_list_index(fs, session_id)[1])) + 1),
                                     topic, items, source_file, now)))),
          raised |-> ""]

\* the model call of resolve_ordinal_reference, answering from the items it is
\* shown: the item at the position the query names (0: the query names none)
FaithfulAnswer(items, position) ==
    IF position \in 1..Len(items) THEN items[position] ELSE None

NotResolved == [resolved |-> None, list_file |-> None]

\* what resolve_ordinal_reference does with the items it has read
ResolveFrom(idx, items, position) ==
    IF items = <<>> \/ ~Truthy(FaithfulAnswer(items, position)) THEN NotResolved
    ELSE [resolved |-> FaithfulAnswer(items, position), list_file |-> GetSourceFile(idx)]

\* resolve_ordinal_reference(query, session, client)
resolve_ordinal_reference(fs, session_id, position) ==
    IF Old_get_list_index(fs, session_id) = <<>> THEN NotResolved
    ELSE ResolveFrom(Old_get_list_index(fs, session_id)[1],
                     GetItems(Old_get_list_index(fs, session_id)[1]), position)

-----------------------------------------------------------------------------
(***************************************************************************)
(* Product grouping.  A product name, brand, shade or category is a        *)
(* sequence of words that single spaces separate ("SP" stands for a space  *)
(* written around a brand); a section key is a sequence of characters.     *)
(* Word gives the classes of words the shade patterns tell apart:          *)
(*   CapLower   [A-Z][a-z]+          Letters    [A-Za-z]+                  *)
(*   UpperStart [A-Z][A-Za-z]*       Num13      \d{1,3}                    *)
(*   Num24      \d{2,4}              Digits     \d+                        *)
(*   Code       [A-Z]{1,3}\d{1,3}    Hash       #[A-Za-z]*\d+              *)
(***************************************************************************)
Word ==
    [CapLower   |-> {"Maybelline", "Lakme", "Matte", "Ink", "Rose", "Shade", "Lipstick"},
     Letters    |-> {"Maybelline", "Lakme", "Matte", "Ink", "Rose", "Shade", "Lipstick",
                     "SuperStay", "lip"},
     UpperStart |-> {"Maybelline", "Lakme", "Matte", "Ink", "Rose", "Shade", "Lipstick",
                     "SuperStay"},
     Num13      |-> {"70", "004"},
     Num24      |-> {"70", "004", "1234"},
     Digits     |-> {"70", "004", "1234"},
     Code       |-> {"NU03"},
     Hash       |-> {"#Nu02"}]

\* len(word)
WordLen(w) ==
    CASE w \in {"-", "SP", "|"} -> 1
      [] w \in {"70"} -> 2
      [] w \in {"Ink", "004", "No.", "lip"} -> 3
      [] w \in {"Rose", "NU03", "(01)", "9to5", "1234"} -> 4
      [] w \in {"Matte", "Shade", "Lakme", "#Nu02"} -> 5
      [] w \in {"Lipstick"} -> 8
      [] w \in {"SuperStay"} -> 9
      [] w \in {"Maybelline"} -> 10

\* len(" ".join(words))
RECURSIVE NameLen(_)
NameLen(n) ==
    IF n = <<>> THEN 0
    ELSE IF Len(n) = 1 THEN WordLen(n[1])
    ELSE WordLen(n[1]) + 1 + NameLen(Tail(n))

\* str.lower() of a word
Lower(w) ==
    CASE w = "Maybelline" -> "maybelline" [] w = "Lakme" -> "lakme"
      [] w = "Matte" -> "matte"           [] w = "Ink" -> "ink"
      [] w = "Rose" -> "rose"             [] w = "Shade" -> "shade"
      [] w = "Lipstick" -> "lipstick"     [] w = "SuperStay" -> "superstay"
      [] w = "NU03" -> "nu03"             [] w = "#Nu02" -> "#nu02"
      [] w = "No." -> "no."
      [] OTHER -> w

\* SHADE_EXTRACTION_PATTERNS[k].search(name): the k-th pattern matches the
\* words i..Len(n) of the name (every pattern opens with \s+ and ends with $)
SHADE_EXTRACTION_PATTERNS(k, n, i) ==
    LET L == Len(n)
        Is(j, S) == j \in 1..L /\ n[j] \in S
        LettersFrom(j) == \A x \in j..L : n[x] \in Word.Letters
    IN  CASE k = 1  -> Is(i, Word.Num13) /\ Is(i + 1, Word.UpperStart) /\ LettersFrom(i + 1)
          [] k = 2  -> Is(i, Word.Code) /\ Is(i + 1, Word.UpperStart) /\ LettersFrom(i + 1)
          [] k = 3  -> Is(i, Word.Hash) /\ LettersFrom(i + 1)
          [] k = 4  -> Is(i, {"-"}) /\ Is(i + 1, Word.Digits) /\ i + 2 <= L /\ LettersFrom(i + 2)
          [] k = 5  -> /\ i <= L - 2
                       /\ \A x \in i..(L - 2) : n[x] \in Word.CapLower
                       /\ Is(L - 1, {"-"}) /\ Is(L, Word.Num24)
          [] k = 6  -> i = L /\ Is(i, {"(01)"})
          [] k = 7  -> Is(i, {"Shade"}) /\ Is(i + 1, Word.Digits \cup {"9to5"})
          [] k = 8  -> Is(i, {"No."}) /\ Is(i + 1, Word.Digits \cup {"9to5"})
          [] k = 9  -> i = L - 2 /\ Is(i, {"-"}) /\ Is(i + 1, Word.CapLower)
                                 /\ Is(i + 2, Word.CapLower)
          [] k = 10 -> i = L - 2 /\ Is(i, Word.CapLower) /\ Is(i + 1, Word.CapLower)
                                 /\ Is(i + 2, Word.Num13)
          [] k = 11 -> i = L - 1 /\ Is(i, Word.Num13) /\ Is(i + 1, Word.CapLower)

\* patterns that are part of a product name, not a shade
KEEP_PATTERNS == {"9to5", "24H", "16H", "2in1", "3in1"}

\* extract_product_base_name(full_name)
extract_product_base_name(full_name) ==
    LET name == StrStrip(full_name)
        \* where pattern.sub('', result) cuts: the leftmost match, 0 for none
        Cut(k, n) == IF \E i \in 2..Len(n) : SHADE_EXTRACTION_PATTERNS(k, n, i)
                     THEN MinOf({i \in 2..Len(n) : SHADE_EXTRACTION_PATTERNS(k, n, i)})
                     ELSE 0
        Applies(k, n) == Cut(k, n) # 0 /\ NameLen(SubSeq(n, 1, Cut(k, n) - 1)) > 5
        \* the first pattern that changes the name and leaves more than 5 characters
        Stripped(n) ==
            IF \E k \in 1..11 : Applies(k, n)
            THEN SubSeq(n, 1, Cut(MinOf({k \in 1..11 : Applies(k, n)}), n) - 1)
            ELSE n
        result == DropTrailing(IF \E j \in 1..Len(name) : Lower(name[j]) \in {Lower(w) : w \in KEEP_PATTERNS}
                               THEN name ELSE Stripped(name),
                               {"-", "SP"})
    IN  IF full_name = <<>> THEN <<"Unknown", "Product">>
        ELSE IF result # <<>> THEN result ELSE full_name

\* a metadata record none of whose fields is set: <<>> stands for a key that is
\* missing or empty
NoMetadata ==
    [brand |-> <<>>, product_line |-> <<>>, sku_family |-> <<>>, product_family |-> <<>>,
     product_name |-> <<>>, title |-> <<>>, shade |-> <<>>,
     leaf_level_category |-> <<>>, sub_category |-> <<>>, category |-> <<>>,
     section_key |-> <<>>, parent_id |-> <<>>, section_index |-> <<>>,
     product_grouping_key |-> <<>>, product_base_name |-> <<>>, _section_key |-> <<>>]

\* a or b
Or(a, b) == IF a # <<>> THEN a ELSE b

\* a grouping key that looks at the product name only
get_product_grouping_key_by_name(metadata) ==
    LET brand == StrStrip(metadata.brand)
        product_name == Or(metadata.product_name, metadata.title)
        base_name == extract_product_base_name(product_name)
    IN  IF base_name # <<>> /\ base_name # product_name
        THEN brand \o <<"|">> \o base_name
        ELSE brand \o <<"|">> \o product_name

\* get_product_grouping_key(metadata): f"{brand}|{...}"
get_product_grouping_key(metadata) ==
    LET brand == StrStrip(metadata.brand)
        product_name == Or(metadata.product_name, metadata.title)
        base_name == extract_product_base_name(product_name)
        category == Or(metadata.leaf_level_category,
                       Or(metadata.sub_category, metadata.category))
    IN  IF metadata.product_line # <<>> THEN brand \o <<"|">> \o metadata.product_line
        ELSE IF metadata.sku_family # <<>> THEN brand \o <<"|">> \o metadata.sku_family
        ELSE IF metadata.product_family # <<>> THEN brand \o <<"|">> \o metadata.product_family
        ELSE IF metadata.shade # <<>> /\ ~Contains(product_name, metadata.shade)
        THEN brand \o <<"|">> \o product_name
        ELSE IF base_name # <<>> /\ base_name # product_name
        THEN brand \o <<"|">> \o base_name
        ELSE IF brand # <<>> /\ category # <<>>
        THEN brand \o <<"|">> \o category \o <<"|">> \o product_name
        ELSE brand \o <<"|">> \o product_name

\* get_clean_product_name(metadata)
get_clean_product_name(metadata) ==
    LET brand == StrStrip(metadata.brand)
        product_line == StrStrip(metadata.product_line)
        product_name == Or(metadata.product_name, metadata.title)
        base_name == extract_product_base_name(product_name)
        Low(s) == [j \in 1..Len(s) |-> Lower(s[j])]
        WithBrand(name) == IF brand # <<>> /\ ~Contains(Low(name), Low(brand))
                           THEN brand \o name ELSE name
    IN  IF product_line # <<>> THEN WithBrand(product_line)
        ELSE IF metadata.shade # <<>> /\ ~Contains(product_name, metadata.shade)
        THEN WithBrand(product_name)
        ELSE WithBrand(base_name)

\* get_section_key(metadata): parent_id is given as parent_id.split("::")
get_section_key(metadata) ==
    IF metadata.section_key # <<>> THEN metadata.section_key
    ELSE IF Len(metadata.parent_id) >= 2
    THEN Join(Tail(metadata.parent_id), <<":", ":">>)
    ELSE IF metadata.section_index # <<>>
    THEN <<"s", "e", "c", "t", "i", "o", "n", "_", ToString(metadata.section_index[1])>>
    ELSE <<"u", "n", "k", "n", "o", "w", "n">>

MAX_CHUNKS_PER_PRODUCT == 3

\* sorted(chunks, key=score, reverse=True): stable, so equal scores keep their order
RECURSIVE SortedByScore(_)
SortedByScore(chunks) ==
    IF chunks = <<>> THEN <<>>
    ELSE LET rest == SortedByScore(SubSeq(chunks, 1, Len(chunks) - 1))
             x == chunks[Len(chunks)]
             k == Cardinality({j \in 1..Len(rest) : rest[j].score >= x.score})
         IN  SubSeq(rest, 1, k) \o <<x>> \o SubSeq(rest, k + 1, Len(rest))

\* _select_diverse_chunks(chunks, max_chunks)
_select_diverse_chunks(chunks, max_chunks) ==
    LET sorted_chunks == SortedByScore(chunks)
        priority_patterns ==
            << {<<"p", "r", "o", "d", "u", "c", "t">>, <<"s", "e", "c", "-">>},
               {<<"a", "t", "t", "r", "s", ":", ":", "2">>, <<"s", "e", "c", "t", "i", "o", "n", "_", "0", "4">>},
               {<<"a", "t", "t", "r", "s", ":", ":", "1", "1">>, <<"s", "e", "c", "t", "i", "o", "n", "_", "1", "3">>},
               {<<"a", "t", "t", "r", "s", ":", ":", "5">>, <<"s", "e", "c", "t", "i", "o", "n", "_", "0", "7">>},
               {<<"a", "t", "t", "r", "s", ":", ":", "1">>, <<"s", "e", "c", "t", "i", "o", "n", "_", "0", "3">>} >>
        InSection(idx, p) ==
            \E pat \in priority_patterns[p] :
                Contains(sorted_chunks[idx].metadata._section_key, pat)
        Unused(sel) == {idx \in 1..Len(sorted_chunks) : \A j \in 1..Len(sel) : sel[j] # idx}
        \* one chunk from each priority section, then the best of the rest
        RECURSIVE Priority(_, _)
        Priority(p, sel) ==
            IF p > Len(priority_patterns) \/ Len(sel) >= max_chunks THEN sel
            ELSE IF \E idx \in Unused(sel) : InSection(idx, p)
            THEN Priority(p + 1, Append(sel, MinOf({idx \in Unused(sel) : InSection(idx, p)})))
            ELSE Priority(p + 1, sel)
        RECURSIVE Fill(_)
        Fill(sel) ==
            IF Len(sel) >= max_chunks \/ Unused(sel) = {} THEN sel
            ELSE Fill(Append(sel, MinOf(Unused(sel))))
        selected == Fill(Priority(1, <<>>))
    IN  IF Len(chunks) <= max_chunks THEN chunks
        ELSE [j \in 1..Len(selected) |-> sorted_chunks[selected[j]]]

\* dedupe_by_product(retrieved, max_chunks_per_product) as defined at l.770; the
\* module then replaces it (DISABLE_GROUPING_AND_AGGREGATION, l.1101-1106) by
\* a function that returns the list as it is
dedupe_by_product(retrieved, max_chunks_per_product, DISABLE_GROUPING_AND_AGGREGATION) ==
    LET \* first pass: every item gets the computed fields added to its metadata
        Annotated(item) ==
            [item EXCEPT
                !.metadata.product_grouping_key = get_product_grouping_key(item.metadata),
                !.metadata.product_base_name = get_clean_product_name(item.metadata),
                !.metadata._section_key = get_section_key(item.metadata)]
        Key(items, j) == items[j].metadata.product_grouping_key
        RECURSIVE Chunks(_, _, _)
        Chunks(items, j, key) ==
            IF j > Len(items) THEN <<>>
            ELSE (IF Key(items, j) = key THEN <<items[j]>> ELSE <<>>)
                     \o Chunks(items, j + 1, key)
        \* product_chunks: the groups in the order their keys first appear, each
        \* with its items in input order
        RECURSIVE product_chunks(_, _)
        product_chunks(items, j) ==
            IF j > Len(items) THEN <<>>
            ELSE (IF \A x \in 1..(j - 1) : Key(items, x) # Key(items, j)
                  THEN <<[key |-> Key(items, j), chunks |-> Chunks(items, 1, Key(items, j))]>>
                  ELSE <<>>) \o product_chunks(items, j + 1)
        \* second pass: the chunks selected from each group, group after group
        RECURSIVE Selected(_)
        Selected(groups) ==
            IF groups = <<>> THEN <<>>
            ELSE _select_diverse_chunks(Head(groups).chunks, max_chunks_per_product)
                     \o Selected(Tail(groups))
        Grouped(items, groups) ==
            [items |-> items, product_chunks |-> groups,
             result |-> SortedByScore(Selected(groups))]
        Passes(items) == Grouped(items, product_chunks(items, 1))
    IN  IF DISABLE_GROUPING_AND_AGGREGATION \/ retrieved = <<>>
        THEN [items |-> retrieved, product_chunks |-> <<>>, result |-> retrieved]
        ELSE Passes([j \in 1..Len(retrieved) |-> Annotated(retrieved[j])])

\* aggregate_products_for_display(retrieved) as defined at l.899: one product
\* for each grouping key, in the order the keys first appear, with the score
\* and the item of its best record, sorted by score; the module then replaces
\* it (l.1108-1125) by a function that makes one product of every record
aggregate_products_for_display(retrieved, DISABLE_GROUPING_AND_AGGREGATION) ==
    LET Key(item) == Or(item.metadata.product_grouping_key,
                        get_product_grouping_key(item.metadata))
        Product(item) ==
            [grouping_key |-> Key(item), best_score |-> item.score, best_item |-> item]
        \* if score > product["best_score"]: best_score, best_item = score, item
        Track(product, item) ==
            IF item.score > product.best_score
            THEN [product EXCEPT !.best_score = item.score, !.best_item = item]
            ELSE product
        RECURSIVE products(_, _)
        products(j, acc) ==
            IF j > Len(retrieved) THEN acc
            ELSE LET item == retrieved[j]
                 IN  IF \E x \in 1..Len(acc) : acc[x].grouping_key = Key(item)
                     THEN products(j + 1,
                                   [x \in 1..Len(acc) |->
                                       IF acc[x].grouping_key = Key(item)
                                       THEN Track(acc[x], item) ELSE acc[x]])
                     ELSE products(j + 1, Append(acc, Product(item)))
        \* sorted(result, key=relevance_score, reverse=True)
        RECURSIVE Sorted(_)
        Sorted(ps) ==
            IF ps = <<>> THEN <<>>
            ELSE LET rest == Sorted(SubSeq(ps, 1, Len(ps) - 1))
                     x == ps[Len(ps)]
                     k == Cardinality({j \in 1..Len(rest) : rest[j].best_score >= x.best_score})
                 IN  SubSeq(rest, 1, k) \o <<x>> \o SubSeq(rest, k + 1, Len(rest))
    IN  IF DISABLE_GROUPING_AND_AGGREGATION
        THEN [j \in 1..Len(retrieved) |->
                 [grouping_key |-> <<>>, best_score |-> retrieved[j].score,
                  best_item |-> retrieved[j]]]
        ELSE Sorted(products(1, <<>>))

-----------------------------------------------------------------------------
(***************************************************************************)
(* Idle values: what a variable group holds in a specification that does   *)
(* not use it.                                                             *)
(***************************************************************************)
NoReq == [sid |-> "", input |-> ToolInput("", FALSE, <<>>, <<>>, <<>>, <<>>)]
NoOp  == [sid |-> "", command |-> "", kind |-> "", detail |-> <<>>,
          reads |-> {}, writes |-> {}, removes |-> {}]

\* the SessionState objects alive at a time: the one the CLI keeps for its
\* commands and the one general_product_qna makes for a turn
Instances == {"cli", "turn"}

NoStream == [text |-> <<>>, pos |-> 0, cb |-> FALSE, pc |-> "idle"]
NoAgent  == [pc |-> "idle", max_iterations |-> 0, iter_idx |-> 0, model_calls |-> 0,
             cb |-> FALSE, all_meaningful_texts |-> <<>>, last_step_text |-> <<>>,
             tool_uses |-> <<>>, tool_results |-> <<>>, calls |-> <<>>,
             messages |-> <<>>, exit |-> "", result |-> <<>>]
NoInst   == [session_id |-> "", cache |-> <<>>, raised |-> ""]
NoOrd    == [op |-> "", raised |-> "", query |-> 0, registered |-> <<>>,
             resolved |-> "None", list_file |-> "None"]

TextIdle   == txtIn = <<>> /\ txtOut = <<>> /\ txtPc = "idle"
FsIdle     == files = FilesInit /\ toolReq = NoReq /\ fsOp = NoOp
ToolIdle   == toolReq = NoReq /\ fsOp = NoOp
StreamIdle == strm = NoStream /\ filt = FilterInit
AgentIdle  == agent = NoAgent
SessIdle   == inst = [i \in Instances |-> NoInst]
NoGrp == [pc |-> "idle", retrieved |-> <<>>, max_chunks |-> 0, disabled |-> FALSE,
          items |-> <<>>, product_chunks |-> <<>>, result |-> <<>>, aggregated |-> <<>>]

NoTurn == [pc |-> "idle", query |-> "", category |-> "None", stream_callback |-> FALSE,
           before |-> <<>>, router |-> <<>>, intent |-> <<>>, search |-> <<>>,
           aggregated_products |-> <<>>, stages |-> <<>>, answer |-> "",
           raised |-> ""]

NoLst == [session_id |-> "", recent |-> {}, result |-> <<>>]
NoCmp == [pc |-> "idle", entities |-> <<>>, base_query |-> "", index |-> <<>>,
          next |-> 0, all_results |-> <<>>, seen_ids |-> {}, result |-> <<>>]
NoSer == [sid \in SessionIds |->
            [pc |-> "idle", session |-> NoInst, earlier |-> 0, turns |-> 0, commits |-> 0,
             tools |-> 0]]

OrdIdle    == ord = NoOrd
GrpIdle    == grp = NoGrp
TurnIdle   == turn = NoTurn
LstIdle    == lst = NoLst
CmpIdle    == cmp = NoCmp
SerIdle    == ser = NoSer

-----------------------------------------------------------------------------
(***************************************************************************)
(* SpecText: strip_memory_preamble applied to texts made of a preface, a   *)
(* second preface and a body.                                              *)
(***************************************************************************)
TextPrefaces ==
    { <<>>,
      <<"LM", "SP", "UPD", "SP", "MEM", "SP", "FIRST", "DOT", "SP">>,
      <<"LM", "SP", "UPD", "SP", "MEM", "DOT", "SP">>,
      <<"LM", "SP", "UPD", "SP", "MEM", "SP", "AND", "SP", "THEN", "SP">>,
      <<"LM", "SP", "NOTES", "SP", "FIRST", "COMMA", "SP", "THEN", "SP">>,
      <<"SAVING", "SP", "NOTES", "DOT", "SP">>,
      <<"IVE", "SP", "NOTES", "DOT", "SP">>,
      <<"ILLSAVE", "COMMA", "SP", "THEN", "SP">>,
      <<"ILLUPD", "SP", "MEM", "SP", "AND", "SP">>,
      <<"IMSAV", "SP", "NOTES", "DOT", "NL">>,
      <<"MEMUPD", "DOT", "SP">>,
      <<"INEED", "SP", "UPD", "SP", "MEM", "SP", "FIRST", "DOT", "SP">>,
      <<"COMMA", "SP", "THEN", "SP", "GIVE", "DOT", "SP">>,
      <<"LM", "SP", "GIVE", "DOT", "SP">>,
      <<"AND", "SP">> }

TextBodies ==
    { <<>>,
      <<"COV", "SP", "AND", "SP", "HRS", "DOT">>,
      <<"LAK", "DOT">>,
      <<"LONG", "DOT">>,
      <<"LAK", "DOT", "SP", "COV", "DOT">> }

TextInputs == {p \o q \o b : p \in TextPrefaces, q \in TextPrefaces, b \in TextBodies}

TextInit ==
    /\ txtIn \in TextInputs
    /\ txtOut = <<>>
    /\ txtPc = "ready"
    /\ FsIdle /\ StreamIdle /\ AgentIdle /\ SessIdle /\ OrdIdle /\ GrpIdle /\ TurnIdle /\ LstIdle /\ CmpIdle /\ SerIdle

StripCall ==
    /\ txtPc = "ready"
    /\ txtOut' = strip_memory_preamble(txtIn)
    /\ txtPc' = "done"
    /\ UNCHANGED <<txtIn, notText>>

TextNext == StripCall

SpecText == TextInit /\ [][TextNext]_vars

-----------------------------------------------------------------------------
(***************************************************************************)
(* SpecFS: tool calls of the model against the handlers of two sessions,   *)
(* "global" (rooted at MEMORY_DIR) and "user_1" (rooted below it).         *)
(***************************************************************************)
\* how many files and directories the tool calls may add
MaxNewNodes == 2

PathStrs ==
    { <<>>,                                                  \* ""
      <<Sep, MemWord>>,                                      \* /memories
      <<Sep, MemWord, Sep, NotesMd>>,                        \* /memories/notes.md
      <<MemWord, Sep, SubDir, Sep, NotesMd>>,                \* memories/sub/notes.md
      <<Sep, MemWord, Sep, SubDir>>,                         \* /memories/sub
      <<DotDot, Sep, User1, Sep, NotesMd>>,                  \* ../user_1/notes.md
      <<Sep, MemWord, Sep, User1, Sep, NotesMd>>,            \* /memories/user_1/notes.md
      <<Sep, MemWord, Sep, NotesMd, Sep, SubDir>> }          \* /memories/notes.md/sub

FileTexts == { <<"a">>, <<"blob">>, <<"blob", "a">> }
OldStrs   == { <<"a">>, <<"c">> }
NewStrs   == { <<"c">> }

FsInit == FsIdle /\ TextIdle /\ StreamIdle /\ AgentIdle /\ SessIdle /\ OrdIdle /\ GrpIdle /\ TurnIdle /\ LstIdle /\ CmpIdle /\ SerIdle

\* the model emits a tool call for the handler of session sid
Request(sid, tool_input) ==
    /\ toolReq = NoReq
    /\ fsOp = NoOp
    /\ Cardinality(DOMAIN handle(files, SessionMemoryDir(sid), tool_input).files)
          <= Cardinality(DOMAIN FilesInit) + MaxNewNodes
    /\ toolReq' = [sid |-> sid, input |-> tool_input]
    /\ UNCHANGED <<files, fsOp, notFs>>

View ==
    \E sid \in SessionIds, has_path \in BOOLEAN, path \in PathStrs :
        /\ has_path \/ path = <<>>
        /\ Request(sid, ToolInput("view", has_path, path, <<>>, <<>>, <<>>))

Create ==
    \E sid \in SessionIds, path \in PathStrs, file_text \in FileTexts :
        Request(sid, ToolInput("create", TRUE, path, file_text, <<>>, <<>>))

StrReplace ==
    \E sid \in SessionIds, path \in PathStrs, old_str \in OldStrs, new_str \in NewStrs :
        Request(sid, ToolInput("str_replace", TRUE, path, <<>>, old_str, new_str))

Delete ==
    \E sid \in SessionIds, path \in PathStrs :
        Request(sid, ToolInput("delete", TRUE, path, <<>>, <<>>, <<>>))

UnknownCommand ==
    \E sid \in SessionIds :
        Request(sid, ToolInput("rename", TRUE, <<NotesMd>>, <<>>, <<>>, <<>>))

\* MemoryToolHandler.handle runs the call
Handle ==
    /\ toolReq # NoReq
    /\ LET out == handle(files, SessionMemoryDir(toolReq.sid), toolReq.input)
       IN  /\ files' = out.files
           /\ fsOp' = [sid |-> toolReq.sid, command |-> toolReq.input.command,
                       kind |-> out.kind, detail |-> out.detail,
                       reads |-> out.reads, writes |-> out.writes,
                       removes |-> out.removes]
    /\ toolReq' = NoReq
    /\ UNCHANGED notFs

\* the result goes back to the caller of handle
Return ==
    /\ fsOp # NoOp
    /\ fsOp' = NoOp
    /\ UNCHANGED <<files, toolReq, notFs>>

FsNext == View \/ Create \/ StrReplace \/ Delete \/ UnknownCommand \/ Handle \/ Return

SpecFS == FsInit /\ [][FsNext]_vars

-----------------------------------------------------------------------------
(***************************************************************************)
(* SpecHandlers: create and str_replace calls against the two              *)
(* MemoryToolHandler classes of the repository, that of                    *)
(* product_tools_optimized_updated.py (the Streamlit app) and that of      *)
(* product_tools_optimized.py (the main_optimized CLI), on one file store. *)
(***************************************************************************)
HandlersInit == FsInit

\* a handler method has run on tool_input and returned out
Called(handler, sid, tool_input, out) ==
    /\ Cardinality(DOMAIN out.files) <= Cardinality(DOMAIN FilesInit) + MaxNewNodes
    /\ files' = out.files
    /\ fsOp' = [handler |-> handler, sid |-> sid, input |-> tool_input,
                kind |-> out.kind, detail |-> out.detail, writes |-> out.writes]
    /\ UNCHANGED <<toolReq, notFs>>

HandlerPaths ==
    { <<Sep, MemWord, Sep, NotesMd>>,                        \* /memories/notes.md
      <<MemWord, Sep, SubDir, Sep, NotesMd>>,                \* memories/sub/notes.md
      <<Sep, MemWord, Sep, SubDir>>,                         \* /memories/sub
      <<DotDot, Sep, User1, Sep, NotesMd>> }                 \* ../user_1/notes.md

CreateInputs ==
    {ToolInput("create", TRUE, path, file_text, <<>>, <<>>) :
        path \in HandlerPaths, file_text \in {<<"a">>, <<"blob", "a">>}}

StrReplaceInputs ==
    {ToolInput("str_replace", TRUE, path, <<>>, old_str, new_str) :
        path \in HandlerPaths, old_str \in OldStrs, new_str \in NewStrs}

UpdatedCreate ==
    \E sid \in SessionIds, tool_input \in CreateInputs :
        Called("updated", sid, tool_input,
               _create(files, SessionMemoryDir(sid), tool_input))

UpdatedStrReplace ==
    \E sid \in SessionIds, tool_input \in StrReplaceInputs :
        Called("updated", sid, tool_input,
               _str_replace(files, SessionMemoryDir(sid), tool_input))

OptimizedCreate ==
    \E sid \in SessionIds, tool_input \in CreateInputs :
        Called("optimized", sid, tool_input,
               optimized_create(files, SessionMemoryDir(sid), tool_input))

OptimizedStrReplace ==
    \E sid \in SessionIds, tool_input \in StrReplaceInputs :
        Called("optimized", sid, tool_input,
               optimized_str_replace(files, SessionMemoryDir(sid), tool_input))

HandlersNext == UpdatedCreate \/ UpdatedStrReplace \/ OptimizedCreate \/ OptimizedStrReplace

SpecHandlers == HandlersInit /\ [][HandlersNext]_vars

-----------------------------------------------------------------------------
(***************************************************************************)
(* SpecStream: one model turn arriving chunk by chunk through              *)
(* _stream_with_filtering.  The turn's text is a preface followed by a     *)
(* body; a chunk is any non-empty run of the lexemes not yet delivered, or *)
(* an empty string.                                                        *)
(***************************************************************************)
StreamPrefaces ==
    { <<>>,
      <<"LM", "SP", "UPD", "SP", "MEM", "DOT", "SP">>,
      <<"LM", "SP", "UPD", "SP", "MEM", "SP", "FIRST", "DOT", "SP">>,
      <<"SAVING", "SP", "NOTES", "DOT", "SP">>,
      <<"IVE", "SP", "NOTES", "DOT", "NL">>,
      <<"SP", "ILLUPD", "SP", "MEM", "SP", "AND", "SP">> }

StreamBodies ==
    { <<>>,
      <<"LAK", "DOT">>,
      <<"LONG", "DOT", "SP", "COV", "DOT">> }

StreamTexts == {p \o b : p \in StreamPrefaces, b \in StreamBodies} \ {<<>>}

StreamInit ==
    /\ strm \in [text : StreamTexts, pos : {0}, cb : BOOLEAN, pc : {"streaming"}]
    /\ filt = FilterInit
    /\ FsIdle /\ TextIdle /\ AgentIdle /\ SessIdle /\ OrdIdle /\ GrpIdle /\ TurnIdle /\ LstIdle /\ CmpIdle /\ SerIdle

\* the next chunk of stream.text_stream arrives
NextChunk ==
    /\ strm.pc = "streaming"
    /\ \E n \in 1..(Len(strm.text) - strm.pos) :
          /\ filt' = FilterChunk(filt, SubSeq(strm.text, strm.pos + 1, strm.pos + n),
                                 strm.cb)
          /\ strm' = [strm EXCEPT !.pos = @ + n]
    /\ UNCHANGED notStream

\* the stream delivers an empty string
EmptyChunk ==
    /\ strm.pc = "streaming"
    /\ filt' = FilterChunk(filt, <<>>, strm.cb)
    /\ UNCHANGED <<strm, notStream>>

\* the stream ends and _stream_with_filtering returns
EndStream ==
    /\ strm.pc = "streaming"
    /\ strm.pos = Len(strm.text)
    /\ strm' = [strm EXCEPT !.pc = "done"]
    /\ UNCHANGED <<filt, notStream>>

\* the agent loop's next model turn: _stream_with_filtering is called again
NextTurn ==
    /\ strm.pc = "done"
    /\ strm' \in [text : StreamTexts, pos : {0}, cb : {strm.cb}, pc : {"streaming"}]
    /\ filt' = FilterInit
    /\ UNCHANGED notStream

StreamNext == NextChunk \/ EmptyChunk \/ EndStream \/ NextTurn

SpecStream == StreamInit /\ [][StreamNext]_vars

-----------------------------------------------------------------------------
(***************************************************************************)
(* SpecAgent: run_with_memory_tool.  A step is one model turn (the stream  *)
(* is consumed and the turn's text collected), the execution of the tool   *)
(* calls the turn asked for, or the return after the loop.  The handler is *)
(* that of session "user_1".                                               *)
(***************************************************************************)
\* the largest max_iterations argument and configured MAX_TOOL_ITERATIONS
MaxIterations == 2

AgentSession == "user_1"

\* "Max iterations reached."
MaxIterationsReached == <<"MAXITER">>

\* what a model turn may say
AgentTexts ==
    { <<>>,
      <<"LM", "SP", "UPD", "SP", "MEM", "DOT">>,
      <<"LM", "SP", "UPD", "SP", "MEM">>,
      <<"LAK", "DOT">>,
      <<"IVE", "SP", "NOTES", "DOT", "SP",
        "LM", "SP", "UPD", "SP", "MEM", "SP", "FIRST", "SP", "LONG", "DOT">>,
      <<"COV", "SP", "LONG", "DOT">> }

\* the tool_use blocks a model turn may hold
AgentToolUses ==
    { <<>>,
      <<ToolInput("view", FALSE, <<>>, <<>>, <<>>, <<>>)>>,
      <<ToolInput("create", TRUE, <<Sep, MemWord, Sep, NotesMd>>, <<"a">>, <<>>, <<>>),
        ToolInput("view", TRUE, <<Sep, MemWord, Sep, NotesMd>>, <<>>, <<>>, <<>>)>>,
      <<ToolInput("create", TRUE, <<Sep, MemWord, Sep, DotDot, Sep, NotesMd>>, <<"a">>, <<>>, <<>>),
        ToolInput("delete", FALSE, <<>>, <<>>, <<>>, <<>>),
        ToolInput("create", TRUE, <<Sep, MemWord, Sep, NotesMd>>, <<"b">>, <<>>, <<>>)>>,
      <<ToolInput("delete", TRUE, <<Sep, MemWord, Sep, SESSION_STATE_FILE>>, <<>>, <<>>, <<>>)>> }

\* within a turn of general_product_qna the model says one of two texts and
\* asks for one of two lists of tool calls
TurnTexts == { <<>>, <<"LAK", "DOT">> }

TurnToolUses ==
    { <<ToolInput("create", TRUE, <<Sep, MemWord, Sep, NotesMd>>, <<"a">>, <<>>, <<>>),
        ToolInput("view", TRUE, <<Sep, MemWord, Sep, NotesMd>>, <<>>, <<>>, <<>>)>>,
      <<ToolInput("delete", TRUE, <<Sep, MemWord, Sep, SESSION_STATE_FILE>>, <<>>, <<>>, <<>>)>> }

\* what the model may say and ask for at this model call
ModelTexts == IF turn.pc = "agent" THEN TurnTexts ELSE AgentTexts

ModelToolUses == IF turn.pc = "agent" THEN TurnToolUses ELSE AgentToolUses \ {<<>>}

\* the ways the turn's text arrives: whole, or its first lexeme and the rest
Chunkings(text) ==
    {<<text>>} \cup (IF Len(text) >= 2 THEN {<<SubSeq(text, 1, 1), Drop(text, 1)>>} ELSE {})

\* the content blocks of the model's response: its text, when it has one, and
\* its tool_use blocks, each with the id the API gave it
TextBlock(text) == [type |-> "text", text |-> text]
ToolUse(id, input) == [type |-> "tool_use", id |-> id, input |-> input]
ToolUses(n, inputs) == [k \in 1..Len(inputs) |-> ToolUse(<<n, k>>, inputs[k])]
ResponseContent(text, tool_uses) ==
    (IF text # <<>> THEN <<TextBlock(text)>> ELSE <<>>) \o tool_uses

\* messages = [{"role": "user", "content": user_message}]
UserMessage == [type |-> "text", text |-> <<"QUERY">>]

\* max_iterations = max_iterations or config.MAX_TOOL_ITERATIONS;
\* stream_callback = None if config.STREAM_FINAL_ONLY  (0 stands for None)
StartAgent(max_iterations, MAX_TOOL_ITERATIONS, stream_callback, STREAM_FINAL_ONLY) ==
    [NoAgent EXCEPT !.pc = "call",
                    !.messages = <<[role |-> "user", content |-> <<UserMessage>>]>>,
                    !.max_iterations = IF max_iterations # 0 THEN max_iterations
                                       ELSE MAX_TOOL_ITERATIONS,
                    !.cb = stream_callback /\ ~STREAM_FINAL_ONLY]

AgentInit ==
    /\ agent \in {StartAgent(m, c, cb, fo) : m \in 0..MaxIterations, c \in 0..MaxIterations,
                                             cb \in BOOLEAN, fo \in BOOLEAN}
    /\ FsIdle /\ TextIdle /\ StreamIdle /\ SessIdle /\ OrdIdle /\ GrpIdle /\ TurnIdle /\ LstIdle /\ CmpIdle /\ SerIdle

\* for iter_idx in range(max_iterations): off by one
LoopContinuesOffByOne(a) == a.iter_idx <= a.max_iterations

\* for iter_idx in range(max_iterations)
LoopContinues(a) == a.iter_idx < a.max_iterations

\* the text is collected unless it matches the meta-marker pattern, whatever
\* its length
CollectUnlessMarker(a, calls, step_text) ==
    [a EXCEPT !.model_calls = @ + 1,
              !.calls = calls,
              !.last_step_text = step_text,
              !.all_meaningful_texts =
                  IF step_text # <<>> /\ ~META_MARKER_PATTERN(step_text)
                  THEN Append(@, step_text) ELSE @]

\* last_step_text = step_text; the text is collected unless it is meta only
Collect(a, calls, step_text) ==
    [a EXCEPT !.model_calls = @ + 1,
              !.calls = calls,
              !.last_step_text = step_text,
              !.all_meaningful_texts =
                  IF step_text # <<>> /\ ~is_meta_only_text(step_text)
                  THEN Append(@, step_text) ELSE @]

\* step_text = strip_memory_preamble(step_text)
AfterStream(a, s) == Collect(a, s.calls, strip_memory_preamble(s.text))

\* one model call: the stream is filtered, the text stripped and collected
AfterModelCall(a, chunks) == AfterStream(a, _stream_with_filtering(chunks, a.cb))

\* the loop goes on to another iteration instead of returning
ReturnFinalGoesOn(a) == [a EXCEPT !.iter_idx = @ + 1]

\* return _assemble_final_response(all_meaningful_texts, last_step_text)
ReturnFinal(a) ==
    [a EXCEPT !.pc = "done", !.exit = "final",
              !.result = _assemble_final_response(a.all_meaningful_texts,
                                                  a.last_step_text)]

\* return _assemble_final_response(...) or "Max iterations reached."
OrMaxIterationsReached(final) == IF final # <<>> THEN final ELSE MaxIterationsReached

\* a model turn without tool_use blocks: the loop returns
ModelTurnFinal ==
    /\ agent.pc = "call"
    /\ LoopContinues(agent)
    /\ \E text \in ModelTexts : \E chunks \in Chunkings(text) :
          agent' = ReturnFinal(AfterModelCall(agent, chunks))
    /\ UNCHANGED <<files, notAgent>>

\* a model turn with tool_use blocks
ModelTurnTools ==
    /\ agent.pc = "call"
    /\ LoopContinues(agent)
    /\ \E text \in ModelTexts : \E chunks \in Chunkings(text) :
       \E inputs \in ModelToolUses :
          LET tool_uses == ToolUses(agent.model_calls + 1, inputs)
          IN  agent' = [AfterModelCall(agent, chunks) EXCEPT
                           !.pc = "tools",
                           !.tool_uses = tool_uses,
                           !.messages = Append(@, [role |-> "assistant",
                                                   content |-> ResponseContent(text, tool_uses)])]
    /\ UNCHANGED <<files, notAgent>>

\* tool_results.append({"type": "tool_result", "tool_use_id": ..., "content": result})
ToolResult(tb, out) ==
    [type |-> "tool_result", tool_use_id |-> tb.id, content |-> <<out.kind, out.detail>>]

\* _handle_tool_calls with one id for all results
RECURSIVE HandleAllOneId(_, _, _, _)
HandleAllOneId(fs, memory_dir, tool_uses, tool_results) ==
    IF tool_uses = <<>> THEN [files |-> fs, tool_results |-> tool_results]
    ELSE LET out == handle(fs, memory_dir, Head(tool_uses).input)
         IN  HandleAllOneId(out.files, memory_dir, Tail(tool_uses),
                       Append(tool_results,
                              [ToolResult(Head(tool_uses), out) EXCEPT
                                  !.tool_use_id = <<@[1], 1>>]))

\* _handle_tool_calls: every call is run, in order, each on what the one before left
RECURSIVE HandleAll(_, _, _, _)
HandleAll(fs, memory_dir, tool_uses, tool_results) ==
    IF tool_uses = <<>> THEN [files |-> fs, tool_results |-> tool_results]
    ELSE LET out == handle(fs, memory_dir, Head(tool_uses).input)
         IN  HandleAll(out.files, memory_dir, Tail(tool_uses),
                       Append(tool_results, ToolResult(Head(tool_uses), out)))

HandleToolCalls ==
    /\ agent.pc = "tools"
    /\ LET r == HandleAll(files, SessionMemoryDir(AgentSession), agent.tool_uses, <<>>)
       IN  /\ files' = r.files
           /\ agent' = [agent EXCEPT !.tool_results = r.tool_results,
                                     !.messages = Append(@, [role |-> "user",
                                                             content |-> r.tool_results]),
                                     !.tool_uses = <<>>,
                                     !.iter_idx = @ + 1,
                                     !.pc = "call"]
    /\ UNCHANGED notAgent

\* the return after the loop
ReturnAtBound ==
    /\ agent.pc = "call"
    /\ ~LoopContinues(agent)
    /\ agent' = [agent EXCEPT
                     !.pc = "done", !.exit = "bound",
                     !.result = OrMaxIterationsReached(
                                    _assemble_final_response(agent.all_meaningful_texts,
                                                             agent.last_step_text))]
    /\ UNCHANGED <<files, notAgent>>

AgentNext == ModelTurnFinal \/ ModelTurnTools \/ HandleToolCalls \/ ReturnAtBound

SpecAgent == AgentInit /\ [][AgentNext]_vars

-----------------------------------------------------------------------------
(***************************************************************************)
(* SpecSession: SessionState objects of the sessions "global" and "user_1" *)
(* are made, used and dropped in any order.                                *)
(***************************************************************************)
\* update is called while turn_count is below this
MaxTurns == 2
\* save_list_index is called while the index holds fewer lists than this
MaxLists == 2

UpdateKwargs ==
    { Kwargs("X", Absent, Absent, Absent, Absent),
      Kwargs(None, None, "C", "Q", "A") }

ListItems == { <<"Lakme 9to5 Matte", "Maybelline SuperStay", "Nykaa Matte">>,
               <<"Nykaa Matte">> }
ListTopics == {"lipsticks"}
SourceFiles == {None, "notes.md"}
Times == {"09:00:00"}

\* user_1's session_state.json holding text that is not JSON
CorruptDisk == WriteFile(FilesInit, _state_path(SessionState("user_1")),
                         FileNode(<<"a">>, <<>>))

\* user_1's session_state.json holding the JSON text []
ArrayDisk == WriteFile(FilesInit, _state_path(SessionState("user_1")), JsonFile(<<>>))

SessionInit ==
    /\ files \in {FilesInit, CorruptDisk, ArrayDisk}
    /\ inst = [i \in Instances |-> NoInst]
    /\ ToolIdle /\ TextIdle /\ StreamIdle /\ AgentIdle /\ OrdIdle /\ GrpIdle /\ TurnIdle /\ LstIdle /\ CmpIdle /\ SerIdle

\* session = SessionState(sid)
NewSessionState(i, sid) ==
    /\ inst[i] = NoInst
    /\ inst' = [inst EXCEPT ![i] = SessionState(sid)]
    /\ files' = Mkdirs(files, SessionMemoryDir(sid))
    /\ UNCHANGED notSess

\* the object is dropped
Discard(i) ==
    /\ inst[i] # NoInst
    /\ inst' = [inst EXCEPT ![i] = NoInst]
    /\ UNCHANGED <<files, notSess>>

\* session.load()
Load(i) ==
    /\ inst[i] # NoInst
    /\ inst' = [inst EXCEPT ![i].cache = <<load(files, inst[i])>>]
    /\ UNCHANGED <<files, notSess>>

\* the object after self._cache = state
Cached(self, state) == [self EXCEPT !.cache = <<state>>]

\* session.update(**kwargs); state.get raises AttributeError when load() has
\* returned a value that is not a dict
Update(i, kwargs) ==
    /\ inst[i] # NoInst
    /\ IF IsDict(load(files, inst[i]))
       THEN /\ load(files, inst[i]).turn_count < MaxTurns
            /\ inst' = [inst EXCEPT ![i] = Cached(@, update(load(files, @), kwargs))]
            /\ files' = save(files, Cached(inst[i], update(load(files, inst[i]), kwargs)))
       ELSE /\ inst' = [inst EXCEPT ![i] = [Cached(@, load(files, @))
                                              EXCEPT !.raised = "AttributeError"]]
            /\ files' = files
    /\ UNCHANGED notSess

\* session.save()
Save(i) ==
    /\ inst[i] # NoInst
    /\ files' = save(files, inst[i])
    /\ UNCHANGED <<inst, notSess>>

\* session.clear()
Clear(i) ==
    /\ inst[i] # NoInst
    /\ inst' = [inst EXCEPT ![i] = Cached(@, DefaultRecord)]
    /\ files' = save(files, Cached(inst[i], DefaultRecord))
    /\ UNCHANGED notSess

\* session.save_list_index(items, topic, source_file)
SaveListIndex(i, items, topic, source_file, now) ==
    /\ inst[i] # NoInst
    /\ Len(get_list_index(files, inst[i].session_id).lists) < MaxLists
    /\ files' = save_list_index(files, inst[i].session_id, items, topic, source_file, now)
    /\ UNCHANGED <<inst, notSess>>

SessionNext ==
    \E i \in Instances :
        \/ \E sid \in SessionIds : NewSessionState(i, sid)
        \/ Discard(i)
        \/ Load(i)
        \/ \E kwargs \in UpdateKwargs : Update(i, kwargs)
        \/ Save(i)
        \/ Clear(i)

SpecSession == SessionInit /\ [][SessionNext]_vars

\* SpecListIndex: lists are registered through the objects of the two sessions
ListIndexNext ==
    \E i \in Instances :
        \/ \E sid \in SessionIds : NewSessionState(i, sid)
        \/ Discard(i)
        \/ \E items \in ListItems, topic \in ListTopics, source_file \in SourceFiles,
              now \in Times : SaveListIndex(i, items, topic, source_file, now)

SpecListIndex == SessionInit /\ [][ListIndexNext]_vars

-----------------------------------------------------------------------------
(***************************************************************************)
(* SpecCurrentList: lists are registered for the two sessions and the      *)
(* current list is asked for, in directories that hold notes the memory    *)
(* tool wrote earlier.                                                     *)
(***************************************************************************)
\* the modification times a note file may have
MaxMtime == 2

\* user_1: a session_note.md that holds a topic and two items
SessionNoteDisk ==
    WriteFile(FilesInit, Append(SessionMemoryDir("user_1"), SessionNoteMd),
              FileNode(<<"TOPIC", "N1", "N2">>, <<>>))

\* user_1: a session_note.md without items, two notes with items, a hidden one
OtherNotesDisk ==
    WriteFile(WriteFile(WriteFile(WriteFile(FilesInit,
        Append(SessionMemoryDir("user_1"), SessionNoteMd), FileNode(<<"a">>, <<>>)),
        Append(SessionMemoryDir("user_1"), NotesMd), FileNode(<<"N2">>, <<>>)),
        Append(SessionMemoryDir("user_1"), PicksMd), FileNode(<<"a", "N1", "N3">>, <<>>)),
        Append(SessionMemoryDir("user_1"), HiddenMd), FileNode(<<"TOPIC", "N1">>, <<>>))

\* global: one note without items
ProseNoteDisk ==
    WriteFile(FilesInit, Append(SessionMemoryDir("global"), NotesMd),
              FileNode(<<"a", "N3">>, <<>>))

CurrentListInit ==
    /\ files \in {FilesInit, SessionNoteDisk, OtherNotesDisk, ProseNoteDisk}
    /\ inst = [i \in Instances |-> NoInst]
    /\ ToolIdle /\ TextIdle /\ StreamIdle /\ AgentIdle /\ OrdIdle /\ GrpIdle /\ TurnIdle /\ LstIdle /\ CmpIdle /\ SerIdle

\* the orders in which iterdir() may give the files of S
Orders(S) ==
    {o \in [1..Cardinality(S) -> S] : \A j, k \in 1..Cardinality(S) : o[j] = o[k] => j = k}

\* session.get_current_list()
GetCurrentList(i) ==
    /\ inst[i] # NoInst
    /\ \E order \in Orders(NoteFiles(files, inst[i].session_id)),
          mtime \in [NoteFiles(files, inst[i].session_id) -> 1..MaxMtime] :
          lst' = [session_id |-> inst[i].session_id,
                  recent |-> {q \in DOMAIN mtime : \A r \in DOMAIN mtime : mtime[r] <= mtime[q]},
                  result |-> get_current_list(files, inst[i].session_id, order, mtime)]
    /\ UNCHANGED <<files, inst, notLst>>

CurrentListNext ==
    \/ \E sid \in SessionIds : NewSessionState("cli", sid)
    \/ Discard("cli")
    \/ \E items \in ListItems, now \in Times :
          SaveListIndex("cli", items, "lipsticks", None, now)
    \/ GetCurrentList("cli")

SpecCurrentList == CurrentListInit /\ [][CurrentListNext]_vars

-----------------------------------------------------------------------------
(***************************************************************************)
(* SpecOrdinal: lists are registered and ordinal queries resolved for the  *)
(* session "user_1", whose list_index.json is at first missing, not JSON,  *)
(* or an object the model wrote in one of the two shapes.                  *)
(***************************************************************************)
OrdSession == "user_1"

\* the position a query names; 0: it names none
QueryPositions == {0, 1, 2, 3}

OrdDisks ==
    { FilesInit,
      WriteFile(FilesInit, _list_index_path(OrdSession), FileNode(<<"a">>, <<>>)),
      WriteFile(FilesInit, _list_index_path(OrdSession), JsonFile(EmptyIndexObject)),
      WriteFile(FilesInit, _list_index_path(OrdSession),
                JsonFile(LegacyIndex("old", <<"A", "B">>, "old.md"))) }

\* the lists registered in list_index.json so far
RegisteredLists(fs, session_id) ==
    IF Old_get_list_index(fs, session_id) = <<>> THEN <<>>
    ELSE GetLists(Old_get_list_index(fs, session_id)[1])

OrdInit ==
    /\ files \in OrdDisks
    /\ ord = NoOrd
    /\ ToolIdle /\ TextIdle /\ StreamIdle /\ AgentIdle /\ SessIdle /\ GrpIdle /\ TurnIdle /\ LstIdle /\ CmpIdle /\ SerIdle

\* what ord holds after save_list_index(items, ...) with the outcome out
AfterSave(o, items, out) ==
    [o EXCEPT !.op = "save_list_index", !.raised = out.raised,
              !.registered = IF out.raised = "" THEN items ELSE @]

\* session.save_list_index(items, topic, source_file)
OrdSaveListIndex(items, topic, source_file, now) ==
    /\ Len(RegisteredLists(files, OrdSession)) < MaxLists
    /\ files' = Old_save_list_index(files, OrdSession, items, topic, source_file, now).files
    /\ ord' = AfterSave(ord, items,
                        Old_save_list_index(files, OrdSession, items, topic,
                                            source_file, now))
    /\ UNCHANGED notOrd

\* what ord holds after resolve_ordinal_reference returned r
AfterResolve(o, position, r) ==
    [o EXCEPT !.op = "resolve", !.raised = "", !.query = position,
              !.resolved = r.resolved, !.list_file = r.list_file]

\* resolve_ordinal_reference(query, session, client)
OrdResolve(position) ==
    /\ ord' = AfterResolve(ord, position,
                           resolve_ordinal_reference(files, OrdSession, position))
    /\ UNCHANGED <<files, notOrd>>

OrdNext ==
    \/ \E items \in ListItems, topic \in ListTopics, source_file \in SourceFiles,
          now \in Times : OrdSaveListIndex(items, topic, source_file, now)
    \/ \E position \in QueryPositions : OrdResolve(position)

SpecOrdinal == OrdInit /\ [][OrdNext]_vars

-----------------------------------------------------------------------------
(***************************************************************************)
(* SpecGroup: dedupe_by_product is called once on a list of retrieved      *)
(* records, in every order, with grouping enabled or disabled, and         *)
(* aggregate_products_for_display on what it returned.                     *)
(***************************************************************************)
MaxRetrieved == 3

SuperStayInk == <<"SuperStay", "Matte", "Ink">>

\* a retrieved record: {"id": ..., "score": ..., "metadata": {...}}
Item(id, score, metadata) == [id |-> id, score |-> score, metadata |-> metadata]

GroupRecords ==
    { Item("r1", 9, [NoMetadata EXCEPT !.brand = <<"Maybelline">>, !.product_line = SuperStayInk,
                        !.product_name = <<"Maybelline">> \o SuperStayInk \o <<"70", "Rose">>,
                        !.shade = <<"Rose">>, !.section_key = <<"p", "r", "o", "d", "u", "c", "t">>]),
      Item("r2", 7, [NoMetadata EXCEPT !.brand = <<"Maybelline">>, !.product_line = SuperStayInk,
                        !.product_name = <<"Maybelline">> \o SuperStayInk \o <<"NU03", "Matte">>,
                        !.parent_id = <<<<"S", "1">>, <<"a", "t", "t", "r", "s">>, <<"1", "0">>>>]),
      Item("r3", 7, [NoMetadata EXCEPT !.brand = <<"Maybelline">>, !.sku_family = SuperStayInk,
                        !.title = <<"Maybelline", "Lipstick">>, !.section_index = <<4>>]),
      Item("r4", 8, [NoMetadata EXCEPT !.brand = <<"SP", "Lakme">>, !.product_family = <<"9to5">>,
                        !.product_name = <<"Lakme", "9to5", "Matte">>]),
      Item("r5", 5, [NoMetadata EXCEPT !.brand = <<"Lakme">>,
                        !.product_name = <<"Lakme", "Matte", "Lipstick", "70", "Rose">>,
                        !.shade = <<"Rose">>]),
      Item("r6", 6, [NoMetadata EXCEPT !.brand = <<"Lakme">>,
                        !.product_name = <<"Lakme", "Matte", "Lipstick">>,
                        !.shade = <<"Ink">>, !.category = <<"Lipstick">>]),
      Item("r7", 5, [NoMetadata EXCEPT !.brand = <<"Lakme">>,
                        !.product_name = <<"Lakme", "Lipstick">>,
                        !.sub_category = <<"Lipstick">>]),
      Item("r8", 4, [NoMetadata EXCEPT !.product_name = <<"Lakme", "Lipstick">>,
                        !.category = <<"Lipstick">>]),
      Item("r9", 10, [NoMetadata EXCEPT !.brand = <<"Maybelline">>, !.product_line = SuperStayInk,
                        !.product_name = <<"Maybelline">> \o SuperStayInk]) }

\* the lists of distinct records search_pinecone can return
Retrievals ==
    UNION { {q \in [1..n -> GroupRecords] : \A i, j \in 1..n : q[i] = q[j] => i = j}
            : n \in 0..MaxRetrieved }

GroupInit ==
    /\ grp \in { [NoGrp EXCEPT !.pc = "ready", !.retrieved = q, !.max_chunks = m,
                               !.disabled = d]
                 : q \in Retrievals, m \in {1, MAX_CHUNKS_PER_PRODUCT}, d \in BOOLEAN }
    /\ FsIdle /\ TextIdle /\ StreamIdle /\ AgentIdle /\ SessIdle /\ OrdIdle /\ TurnIdle /\ LstIdle /\ CmpIdle /\ SerIdle

\* what grp holds after dedupe_by_product returned d
AfterDedupe(g, d) ==
    [g EXCEPT !.pc = "done", !.items = d.items, !.product_chunks = d.product_chunks,
              !.result = d.result]

\* the call groups and caps whatever the mode
DedupeGrouping ==
    /\ grp.pc = "ready"
    /\ grp' = AfterDedupe(grp, dedupe_by_product(grp.retrieved, grp.max_chunks, FALSE))
    /\ UNCHANGED notGrp

\* retrieved = dedupe_by_product(retrieved, max_chunks_per_product)
Dedupe ==
    /\ grp.pc = "ready"
    /\ grp' = AfterDedupe(grp, dedupe_by_product(grp.retrieved, grp.max_chunks, grp.disabled))
    /\ UNCHANGED notGrp

\* aggregated_products = aggregate_products_for_display(retrieved)
Aggregate ==
    /\ grp.pc = "done"
    /\ grp' = [grp EXCEPT !.pc = "aggregated",
                          !.aggregated = aggregate_products_for_display(grp.result, grp.disabled)]
    /\ UNCHANGED notGrp

GroupNext == Dedupe \/ Aggregate

SpecGroup == GroupInit /\ [][GroupNext]_vars

-----------------------------------------------------------------------------
(***************************************************************************)
(* general_product_qna: one turn.  The model of the router, the embedding  *)
(* service, the vector index and the two prompt templates are inputs: each *)
(* may answer or fail.  Strings of the turn (queries, answers that are not *)
(* the agent's) are TLA+ strings; the agent's answer is a text.            *)
(***************************************************************************)
\* the queries a caller passes
Queries == {"", " x ", "best matte lipstick "}

\* query.strip()
StripQuery(query) ==
    CASE query = " x " -> "x"
      [] query = "best matte lipstick " -> "best matte lipstick"
      [] OTHER -> query

\* len(s) of the strings above
Chars(s) == CASE s = "" -> 0 [] s = "x" -> 1 [] s = " x " -> 3
              [] s = "best matte lipstick" -> 19 [] s = "best matte lipstick " -> 20

validate_query(query) ==
    IF query = "" THEN [is_valid |-> FALSE, clean_query |-> "Query cannot be empty"]
    ELSE IF Chars(StripQuery(query)) < 2
    THEN [is_valid |-> FALSE, clean_query |-> "Query too short (minimum 2 characters)"]
    ELSE IF Chars(StripQuery(query)) > 5000
    THEN [is_valid |-> FALSE, clean_query |-> "Query too long (maximum 5000 characters)"]
    ELSE [is_valid |-> TRUE, clean_query |-> StripQuery(query)]

\* dict.get(key, default)
Get(d, key, default) == IF key \in DOMAIN d THEN d[key] ELSE default

\* a or b
OrNone(a, b) == IF Truthy(a) THEN a ELSE b

_fallback_intent(query) ==
    [intent |-> "recommend", requires_retrieval |-> TRUE,
     requires_web_validation |-> FALSE, is_brand_query |-> FALSE,
     is_followup |-> FALSE, needs_clarification |-> FALSE,
     resolved_query |-> query, detected_product |-> None, detected_brand |-> None,
     detected_category |-> None, reasoning |-> "Fallback"]

\* analyze_query_intent after the session summary is made.  template: the
\* Layer-1 prompt file is "missing", cannot be read or formatted ("unreadable")
\* or "ok"; reply: the router model's call raises, or gives text that json.loads
\* refuses ("text") or reads ("json": a dict, or <<>> for an array)
analyze_query_intent(query, template, reply) ==
    IF template = "missing" THEN [raised |-> "FileNotFoundError", intent |-> <<>>]
    ELSE IF template # "ok" THEN [raised |-> "", intent |-> _fallback_intent(query)]
    ELSE IF reply.kind # "json" THEN [raised |-> "", intent |-> _fallback_intent(query)]
    ELSE IF ~IsDict(reply.value) THEN [raised |-> "", intent |-> _fallback_intent(query)]
    ELSE LET result == reply.value
         IN  [raised |-> "",
              intent |->
                [intent |-> Get(result, "intent", "recommend"),
                 requires_retrieval |-> Get(result, "requires_retrieval", TRUE),
                 requires_web_validation |-> Get(result, "requires_web_validation", FALSE),
                 answer_in_memory |-> Get(result, "answer_in_memory", FALSE),
                 memory_answer |-> Get(result, "memory_answer", None),
                 is_brand_query |-> Get(result, "is_brand_query", FALSE),
                 is_followup |-> Get(result, "is_followup", FALSE),
                 needs_clarification |-> Get(result, "needs_clarification", FALSE),
                 resolved_query |-> Get(result, "resolved_query", query),
                 detected_product |-> Get(result, "detected_product", None),
                 detected_brand |-> Get(result, "detected_brand", None),
                 detected_category |-> Get(result, "detected_category", None),
                 reasoning |-> Get(result, "reasoning", "")]]

\* OFF_TOPIC_RESPONSES["default"]: no query of the model names weather, code,
\* food or math
get_off_topic_response(query) ==
    "That's outside my glam zone! But if you have beauty questions, I'm all ears (and perfectly filled brows)"

\* brand.lower() in search_query.lower(), for the strings of the model
Mentions(search_query, brand) == brand = "Lakme" /\ search_query = "Lakme matte lipstick"

\* f"{brand} {search_query}" when the brand query does not name its brand
SearchQuery(intent, query) ==
    LET search_query == Get(intent, "resolved_query", query)
    IN  IF intent.is_brand_query /\ Truthy(intent.detected_brand)
           /\ ~Mentions(search_query, intent.detected_brand)
        THEN intent.detected_brand \o " " \o search_query
        ELSE search_query

\* search_pinecone: embed_text is called first, outside the try; idx.query
\* inside it.  calls: the services that were called
search_pinecone(query, embedding, index) ==
    IF query = "" THEN [raised |-> "", results |-> <<>>, calls |-> <<>>]
    ELSE IF embedding = "raises"
    THEN [raised |-> "EmbeddingError", results |-> <<>>, calls |-> <<"embed">>]
    ELSE IF index.raises
    THEN [raised |-> "", results |-> <<>>, calls |-> <<"embed", "search">>]
    ELSE [raised |-> "", results |-> index.matches, calls |-> <<"embed", "search">>]

\* product_name and brand_name of STEP 10
SessionProduct(intent, aggregated_products) ==
    IF ~Truthy(intent.detected_product) /\ aggregated_products # <<>>
    THEN IF Len(aggregated_products) > 1
         THEN [product_name |-> "List: " \o ToString(Len(aggregated_products)) \o " products",
               brand_name |-> intent.detected_brand]
         ELSE LET first == aggregated_products[1]
                  md == first.metadata
              IN  IF Truthy(Get(first, "product_base_name", None))
                  THEN [product_name |-> first.product_base_name,
                        brand_name |-> OrNone(intent.detected_brand,
                                              Get(first, "brand", None))]
                  ELSE [product_name |-> OrNone(Get(md, "product_name", None),
                                            OrNone(Get(md, "full_name", None),
                                                   Get(md, "title", None))),
                        brand_name |-> OrNone(OrNone(intent.detected_brand,
                                                     Get(first, "brand", None)),
                                              Get(md, "brand", None))]
    ELSE [product_name |-> intent.detected_product, brand_name |-> intent.detected_brand]

\* text[:n]: the lexemes that fit whole, then "CUT" for the part of the next one
RECURSIVE Cut(_, _)
Cut(text, n) ==
    IF text = <<>> \/ n = 0 THEN <<>>
    ELSE IF LexLen(Head(text)) <= n
    THEN <<Head(text)>> \o Cut(Tail(text), n - LexLen(Head(text)))
    ELSE <<"CUT">>

\* a text as a string
Str(text) == IF text = <<>> THEN "" ELSE ToString(text)

\* "I found products but couldn't formulate a clear answer. Please try rephrasing."
NoClearAnswer == <<"NOANSWER">>

\* answer = strip_memory_preamble(answer.strip()), or the apology when empty
FinalAnswer(answer) ==
    IF strip_memory_preamble(StrStrip(answer)) = <<>> THEN NoClearAnswer
    ELSE strip_memory_preamble(StrStrip(answer))

-----------------------------------------------------------------------------
(***************************************************************************)
(* SpecTurn: one call of general_product_qna for session "user_1", on a    *)
(* store that is new or holds the record of an earlier turn.  Its steps    *)
(* are the stages between the calls to outside services; the agent loop's  *)
(* steps are those of SpecAgent.                                           *)
(***************************************************************************)
\* MAX_TOOL_ITERATIONS of the turn's configuration
TurnToolIterations == MaxIterations

Templates == {"missing", "unreadable", "ok"}

RouterReplies ==
    { [kind |-> "raises"], [kind |-> "text"], [kind |-> "json", value |-> <<>>] }
    \cup { [kind |-> "json", value |-> v] :
             v \in { [intent |-> "off_topic", requires_retrieval |-> FALSE],
                     [answer_in_memory |-> TRUE, memory_answer |-> "It lasts 16 hours.",
                      detected_product |-> "SuperStay"],
                     [requires_retrieval |-> FALSE, is_followup |-> TRUE],
                     [intent |-> "recommend", is_brand_query |-> TRUE,
                      detected_brand |-> "Lakme", resolved_query |-> "matte lipstick",
                      detected_category |-> "lipstick"] } }

Match(product_id, score, metadata) ==
    [product_id |-> product_id, score |-> score, metadata |-> metadata]

IndexReplies ==
    { [raises |-> TRUE, matches |-> <<>>],
      [raises |-> FALSE, matches |-> <<>>],
      [raises |-> FALSE,
       matches |-> <<Match("p1", 9, [product_name |-> "Lakme 9to5", brand |-> "Lakme"])>>],
      [raises |-> FALSE,
       matches |-> <<Match("p1", 9, [product_name |-> "Lakme 9to5", brand |-> "Lakme"]),
                     Match("p2", 8, [title |-> "Nykaa Matte"])>>] }

\* the store after an earlier turn of the session
EarlierTurnDisk ==
    save(FilesInit,
         Cached(SessionState(AgentSession),
                update(DefaultRecord, Kwargs(None, None, None, "nude lipstick", "Try these."))))

TurnInit ==
    /\ files \in {FilesInit, EarlierTurnDisk}
    /\ ToolIdle /\ TextIdle /\ StreamIdle /\ AgentIdle /\ SessIdle /\ OrdIdle /\ GrpIdle /\ TurnIdle /\ LstIdle /\ CmpIdle /\ SerIdle

\* session.update(**kwargs) of the turn's SessionState object
TurnUpdate(kwargs) ==
    /\ inst' = [inst EXCEPT !["turn"] = Cached(@, update(load(files, @), kwargs))]
    /\ files' = save(files, Cached(inst["turn"], update(load(files, inst["turn"]), kwargs)))

\* STEP 1, STEP 2: validate_query, SessionState(sid), MemoryToolHandler
TurnStart ==
    /\ turn.pc = "idle"
    /\ \E query \in Queries, category \in {None, "lips"}, stream_callback \in BOOLEAN :
          IF ~validate_query(query).is_valid
          THEN /\ turn' = [turn EXCEPT !.pc = "returned", !.query = query,
                                       !.answer = "Invalid query: "
                                                  \o validate_query(query).clean_query]
               /\ UNCHANGED <<files, inst>>
          ELSE /\ turn' = [turn EXCEPT !.pc = "intent",
                                       !.query = validate_query(query).clean_query,
                                       !.category = category,
                                       !.stream_callback = stream_callback,
                                       !.before = <<load(files, SessionState(AgentSession))>>]
               /\ inst' = [inst EXCEPT !["turn"] = SessionState(AgentSession)]
               /\ files' = Mkdirs(files, SessionMemoryDir(AgentSession))
    /\ UNCHANGED <<agent, notTurn>>

\* STEP 3, STEP 4: analyze_query_intent (session.get_summary() loads the
\* record), the answer from memory, the off-topic answer
Intent ==
    /\ turn.pc = "intent"
    /\ \E template \in Templates, reply \in RouterReplies :
          LET r == analyze_query_intent(turn.query, template, reply)
              t == [turn EXCEPT !.router = [template |-> template, reply |-> reply],
                                !.stages = Append(@, "intent")]
          IN  IF r.raised # ""
              THEN /\ turn' = [t EXCEPT !.pc = "raised", !.raised = r.raised]
                   /\ inst' = [inst EXCEPT !["turn"] = Cached(@, load(files, @))]
                   /\ files' = files
              ELSE IF Get(r.intent, "answer_in_memory", FALSE)
                      /\ Truthy(Get(r.intent, "memory_answer", None))
              THEN /\ TurnUpdate(Kwargs(r.intent.detected_product, r.intent.detected_brand,
                                        OrNone(r.intent.detected_category, turn.category),
                                        turn.query, r.intent.memory_answer))
                   /\ turn' = [t EXCEPT !.pc = "returned", !.intent = r.intent,
                                        !.stages = Append(@, "update"),
                                        !.answer = r.intent.memory_answer]
              ELSE IF r.intent.intent = "off_topic"
              THEN /\ TurnUpdate(Kwargs(Absent, Absent, Absent, turn.query,
                                        get_off_topic_response(turn.query)))
                   /\ turn' = [t EXCEPT !.pc = "returned", !.intent = r.intent,
                                        !.stages = Append(@, "update"),
                                        !.answer = get_off_topic_response(turn.query)]
              ELSE /\ turn' = [t EXCEPT !.pc = "retrieve", !.intent = r.intent]
                   /\ inst' = [inst EXCEPT !["turn"] = Cached(@, load(files, @))]
                   /\ files' = files
    /\ UNCHANGED <<agent, notTurn>>

\* the retrieval stage with a search whatever the intent says
RetrieveAlways ==
    /\ turn.pc = "retrieve"
    /\ \E embedding \in {"ok", "raises"}, index \in IndexReplies,
          layer2 \in {"ok", "missing"}, STREAM_FINAL_ONLY \in BOOLEAN :
          LET requires_retrieval == TRUE
              s == IF requires_retrieval
                   THEN search_pinecone(SearchQuery(turn.intent, turn.query),
                                        embedding, index)
                   ELSE [raised |-> "", results |-> <<>>, calls |-> <<>>]
              t == [turn EXCEPT !.stages = @ \o s.calls,
                                !.search = IF requires_retrieval
                                           THEN [embedding |-> embedding,
                                                 index_raises |-> index.raises]
                                           ELSE <<>>]
          IN  IF s.raised # ""
              THEN /\ turn' = [t EXCEPT !.pc = "raised", !.raised = s.raised]
                   /\ agent' = agent
              ELSE IF requires_retrieval /\ s.results = <<>>
              THEN /\ turn' = [t EXCEPT !.pc = "returned",
                                        !.answer = "I couldn't find relevant products. Could you try rephrasing?"]
                   /\ agent' = agent
              ELSE IF layer2 = "missing"
              THEN /\ turn' = [t EXCEPT !.pc = "raised", !.raised = "FileNotFoundError"]
                   /\ agent' = agent
              ELSE /\ turn' = [t EXCEPT !.pc = "agent", !.aggregated_products = s.results,
                                        !.stages = Append(@, "agent")]
                   /\ agent' = StartAgent(0, TurnToolIterations, turn.stream_callback,
                                          STREAM_FINAL_ONLY)
    /\ UNCHANGED <<files, inst, notTurn>>

\* STEP 5 to STEP 9: search_pinecone, the empty-result answer, the Layer-2
\* prompt, and the start of run_with_memory_tool
Retrieve ==
    /\ turn.pc = "retrieve"
    /\ \E embedding \in {"ok", "raises"}, index \in IndexReplies,
          layer2 \in {"ok", "missing"}, STREAM_FINAL_ONLY \in BOOLEAN :
          LET requires_retrieval == Get(turn.intent, "requires_retrieval", TRUE)
              s == IF requires_retrieval
                   THEN search_pinecone(SearchQuery(turn.intent, turn.query),
                                        embedding, index)
                   ELSE [raised |-> "", results |-> <<>>, calls |-> <<>>]
              t == [turn EXCEPT !.stages = @ \o s.calls,
                                !.search = IF requires_retrieval
                                           THEN [embedding |-> embedding,
                                                 index_raises |-> index.raises]
                                           ELSE <<>>]
          IN  IF s.raised # ""
              THEN /\ turn' = [t EXCEPT !.pc = "raised", !.raised = s.raised]
                   /\ agent' = agent
              ELSE IF requires_retrieval /\ s.results = <<>>
              THEN /\ turn' = [t EXCEPT !.pc = "returned",
                                        !.answer = "I couldn't find relevant products. Could you try rephrasing?"]
                   /\ agent' = agent
              ELSE IF layer2 = "missing"
              THEN /\ turn' = [t EXCEPT !.pc = "raised", !.raised = "FileNotFoundError"]
                   /\ agent' = agent
              ELSE /\ turn' = [t EXCEPT !.pc = "agent", !.aggregated_products = s.results,
                                        !.stages = Append(@, "agent")]
                   /\ agent' = StartAgent(0, TurnToolIterations, turn.stream_callback,
                                          STREAM_FINAL_ONLY)
    /\ UNCHANGED <<files, inst, notTurn>>

\* a model call of the agent loop raises: nothing in run_with_memory_tool or
\* general_product_qna catches it
AgentRaises ==
    /\ turn.pc = "agent"
    /\ agent.pc = "call"
    /\ LoopContinues(agent)
    /\ agent' = NoAgent
    /\ turn' = [turn EXCEPT !.pc = "raised", !.raised = "APIError"]
    /\ UNCHANGED <<files, inst, notTurn>>

\* after run_with_memory_tool has returned: the answer is stripped, STEP 10
\* updates the session, the answer is returned
Finish ==
    /\ turn.pc = "agent"
    /\ agent.pc = "done"
    /\ TurnUpdate(Kwargs(SessionProduct(turn.intent, turn.aggregated_products).product_name,
                         SessionProduct(turn.intent, turn.aggregated_products).brand_name,
                         OrNone(turn.intent.detected_category, turn.category),
                         turn.query, Str(Cut(FinalAnswer(agent.result), 200))))
    /\ turn' = [turn EXCEPT !.pc = "returned", !.stages = Append(@, "update"),
                            !.answer = Str(FinalAnswer(agent.result))]
    /\ agent' = NoAgent
    /\ UNCHANGED notTurn

TurnNext ==
    \/ TurnStart \/ Intent \/ Retrieve
    \/ ModelTurnFinal \/ ModelTurnTools \/ HandleToolCalls \/ ReturnAtBound
    \/ AgentRaises \/ Finish

SpecTurn == TurnInit /\ [][TurnNext]_vars

-----------------------------------------------------------------------------
(***************************************************************************)
(* search_for_comparison: one search per entity, the results merged.  The  *)
(* vector index is an input: for every search query the matches it gives,  *)
(* or a failure.                                                           *)
(***************************************************************************)
\* (entity or "").strip()
StripEntity(entity) == IF entity \in {None, " "} THEN "" ELSE entity

\* f"{entity} {base_query}".strip()
EntityQuery(entity, base_query) ==
    IF base_query = "" THEN entity ELSE entity \o " " \o base_query

\* item["_searched_entity"] = entity
Searched(item, entity) ==
    [product_id |-> item.product_id, score |-> item.score, metadata |-> item.metadata,
     _searched_entity |-> entity]

\* for item in results: the items whose id was not seen yet are added
RECURSIVE AddResults(_, _, _)
AddResults(acc, results, entity) ==
    IF results = <<>> THEN acc
    ELSE LET item == Head(results)
         IN  IF item.product_id \notin acc.seen_ids
             THEN AddResults([all_results |-> Append(acc.all_results, Searched(item, entity)),
                              seen_ids |-> acc.seen_ids \cup {item.product_id}],
                             Tail(results), entity)
             ELSE AddResults(acc, Tail(results), entity)

\* the body of  for entity in entities
SearchEntity(acc, entity, base_query, index) ==
    IF StripEntity(entity) = "" THEN acc
    ELSE AddResults(acc,
                    search_pinecone(EntityQuery(StripEntity(entity), base_query), "ok",
                                    index[EntityQuery(StripEntity(entity), base_query)]).results,
                    StripEntity(entity))

RECURSIVE SearchEntities(_, _, _, _)
SearchEntities(acc, entities, base_query, index) ==
    IF entities = <<>> THEN acc
    ELSE SearchEntities(SearchEntity(acc, Head(entities), base_query, index),
                        Tail(entities), base_query, index)

\* search_for_comparison(entities, base_query, top_k_per_entity)
search_for_comparison(entities, base_query, index) ==
    SortedByScore(SearchEntities([all_results |-> <<>>, seen_ids |-> {}],
                                 entities, base_query, index).all_results)

(***************************************************************************)
(* SpecCompare: search_for_comparison is called once on a list of entities *)
(* and runs its searches one after the other.                              *)
(***************************************************************************)
MaxEntities == 3

CompareEntities == {None, " ", "Lakme", "MAC", "Nykaa"}

BaseQueries == {"", "matte"}

CompareQueries ==
    {EntityQuery(StripEntity(e), b) : e \in CompareEntities \ {None, " "}, b \in BaseQueries}

Found(matches) == [raises |-> FALSE, matches |-> matches]

\* what the index holds: a product is found by the searches of two entities,
\* with the score of each search
CompareIndex ==
    [q \in CompareQueries |->
        CASE q = "Lakme" -> Found(<<Match("p1", 9, <<>>), Match("p2", 6, <<>>)>>)
          [] q = "MAC" -> Found(<<Match("p3", 8, <<>>), Match("p2", 7, <<>>)>>)
          [] q = "Nykaa" -> Found(<<Match("p4", 8, <<>>)>>)
          [] q = "Lakme matte" -> Found(<<Match("p1", 9, <<>>)>>)
          [] q = "MAC matte" -> Found(<<Match("p3", 8, <<>>), Match("p5", 5, <<>>)>>)
          [] OTHER -> Found(<<>>)]

\* the same index with the searches of one entity failing
CompareIndexes ==
    {CompareIndex} \cup
    {[q \in CompareQueries |-> IF q \in {"MAC", "MAC matte"}
                               THEN [raises |-> TRUE, matches |-> <<>>]
                               ELSE CompareIndex[q]]}

CompareInit ==
    /\ cmp \in {[NoCmp EXCEPT !.pc = "search", !.entities = es, !.base_query = b,
                              !.index = ix, !.next = 1]
                : es \in UNION {[1..n -> CompareEntities] : n \in 0..MaxEntities},
                  b \in BaseQueries, ix \in CompareIndexes}
    /\ FsIdle /\ TextIdle /\ StreamIdle /\ AgentIdle /\ SessIdle /\ OrdIdle /\ GrpIdle
    /\ TurnIdle /\ LstIdle /\ SerIdle

\* one turn of the loop over the entities
CompareSearch ==
    /\ cmp.pc = "search"
    /\ cmp.next <= Len(cmp.entities)
    /\ LET acc == SearchEntity([all_results |-> cmp.all_results, seen_ids |-> cmp.seen_ids],
                               cmp.entities[cmp.next], cmp.base_query, cmp.index)
       IN  cmp' = [cmp EXCEPT !.all_results = acc.all_results,
                              !.seen_ids = acc.seen_ids,
                              !.next = @ + 1]
    /\ UNCHANGED notCmp

\* all_results.sort(key=score, reverse=True); return all_results
CompareReturn ==
    /\ cmp.pc = "search"
    /\ cmp.next > Len(cmp.entities)
    /\ cmp' = [cmp EXCEPT !.pc = "done", !.result = SortedByScore(cmp.all_results)]
    /\ UNCHANGED notCmp

CompareNext == CompareSearch \/ CompareReturn

SpecCompare == CompareInit /\ [][CompareNext]_vars

-----------------------------------------------------------------------------
(***************************************************************************)
(* SpecSerial: turns of the sessions "global" and "user_1".  The caller    *)
(* keeps one request in flight per session id at most; turns of different  *)
(* session ids interleave step by step.  Of a turn, what touches the file  *)
(* store is kept: SessionState(sid) and its load, the memory tool calls of *)
(* the agent loop, and the session update.                                 *)
(***************************************************************************)
\* how many memory tool calls the model makes in one turn
MaxSerialTools == 1

SerialToolUses ==
    { ToolInput("create", TRUE, <<Sep, MemWord, Sep, NotesMd>>, <<"a">>, <<>>, <<>>),
      ToolInput("delete", TRUE, <<Sep, MemWord, Sep, SESSION_STATE_FILE>>, <<>>, <<>>, <<>>),
      ToolInput("delete", TRUE, <<Sep, MemWord, Sep, User1, Sep, SESSION_STATE_FILE>>,
                <<>>, <<>>, <<>>) }

\* the keyword arguments of the turn's session.update
SerialKwargs ==
    { Kwargs(None, None, None, "Q", "A"),
      Kwargs("X", "B", "C", "Q", "A") }

SerialInit ==
    /\ files \in {FilesInit, EarlierTurnDisk}
    /\ ser = [sid \in SessionIds |->
                [NoSer[sid] EXCEPT !.earlier = load(files, SessionState(sid)).turn_count]]
    /\ ToolIdle /\ TextIdle /\ StreamIdle /\ AgentIdle /\ SessIdle /\ OrdIdle /\ GrpIdle
    /\ TurnIdle /\ LstIdle /\ CmpIdle

\* general_product_qna is called for sid: session = SessionState(sid), and
\* analyze_query_intent loads the record through it
SerialStart(sid) ==
    /\ ser[sid].pc = "idle"
    /\ ser[sid].turns < MaxTurns
    /\ files' = Mkdirs(files, SessionMemoryDir(sid))
    /\ ser' = [ser EXCEPT ![sid].pc = "running", ![sid].turns = @ + 1,
                          ![sid].session = Cached(SessionState(sid),
                                                  load(files, SessionState(sid)))]
    /\ UNCHANGED notSer_files

\* the agent loop of sid's turn runs a memory tool call through
\* MemoryToolHandler(session.memory_dir)
SerialTool(sid) ==
    /\ ser[sid].pc = "running"
    /\ ser[sid].tools < MaxSerialTools
    /\ \E tool_input \in SerialToolUses :
          files' = handle(files, SessionMemoryDir(sid), tool_input).files
    /\ ser' = [ser EXCEPT ![sid].tools = @ + 1]
    /\ UNCHANGED notSer_files

\* session.update(...) of sid's turn, and the turn returns its answer
SerialCommit(sid) ==
    /\ ser[sid].pc = "running"
    /\ \E kwargs \in SerialKwargs :
          files' = save(files, Cached(ser[sid].session,
                                      update(load(files, ser[sid].session), kwargs)))
    /\ ser' = [ser EXCEPT ![sid].pc = "idle", ![sid].session = NoInst,
                          ![sid].tools = 0, ![sid].commits = @ + 1]
    /\ UNCHANGED notSer_files

\* sid's turn ends without a session update: it raises, or finds no product
SerialAbort(sid) ==
    /\ ser[sid].pc = "running"
    /\ ser' = [ser EXCEPT ![sid].pc = "idle", ![sid].session = NoInst, ![sid].tools = 0]
    /\ UNCHANGED <<files, notSer_files>>

SerialNext ==
    \E sid \in SessionIds :
        \/ SerialStart(sid)
        \/ SerialTool(sid)
        \/ SerialCommit(sid)
        \/ SerialAbort(sid)

SpecSerial == SerialInit /\ [][SerialNext]_vars

-----------------------------------------------------------------------------
(***************************************************************************)
(* Claims about the memory tool (SpecFS)                                   *)
(***************************************************************************)
\* a step in which the handler runs the pending call
HandleStep == toolReq # NoReq /\ toolReq' = NoReq

ReqPath  == PathArg(toolReq.input, IF toolReq.input.command = "view"
                                   THEN <<Sep, MemWord>> ELSE <<>>)
ReqRoot  == SessionMemoryDir(toolReq.sid)
ReqLocal == _validate_path(ReqRoot, ReqPath)
Touched(op) == op.reads \cup op.writes \cup op.removes

\* some name_i of the name of p, beside p
IsVersionOf(q, p) ==
    \E i \in 1..(Cardinality(DOMAIN files) + 1) :
        q = with_name(p, Versioned(PathName(p), i))

\* C1: every path a view, create, str_replace or delete call reads, writes or
\* removes is the session root or below it, and a path string holding ".." is
\* rejected with the file store untouched.
C1_SandboxContainment ==
    [][HandleStep =>
         /\ \A p \in Touched(fsOp') : IsPrefix(ReqRoot, p)
         /\ (\E i \in DOMAIN ReqPath : ReqPath[i] = DotDot)
               => /\ files' = files
                  /\ fsOp'.kind = "Error"
                  /\ Touched(fsOp') = {}]_vars

\* C2: no view, create, str_replace or delete call made under one session id
\* reads, writes or removes a path in the directory of another session id,
\* "global" included.
C2_SessionIsolation ==
    [][HandleStep =>
         \A other \in SessionIds \ {toolReq.sid} :
             \A p \in Touched(fsOp') : ~IsPrefix(SessionMemoryDir(other), p)]_vars

\* C3: a create call (with content within the size ceiling) whose path names an
\* existing file leaves that file as it was and writes the new content to a
\* sibling name_i that did not exist before; and no create or str_replace call
\* changes or removes anything that existed before it.
C3_CreateNeverOverwrites ==
    [][HandleStep /\ toolReq.input.command \in {"create", "str_replace"} =>
         /\ \A p \in DOMAIN files : p \in DOMAIN files' /\ files'[p] = files[p]
         /\ (/\ toolReq.input.command = "create"
             /\ ReqLocal.ok
             /\ IsFile(files, ReqLocal.local_path)
             /\ ByteLen(toolReq.input.file_text) <= MAX_MEMORY_FILE_SIZE)
               => /\ fsOp'.kind = "Created"
                  /\ fsOp'.detail \notin DOMAIN files
                  /\ IsVersionOf(fsOp'.detail, ReqLocal.local_path)
                  /\ IsFile(files', fsOp'.detail)
                  /\ files'[fsOp'.detail].text = toolReq.input.file_text]_vars

\* a create has just been redirected to notes_1.md beside a notes.md that still
\* holds other content
C3_Witness ==
    /\ fsOp.command = "create"
    /\ fsOp.kind = "Created"
    /\ \E q \in DOMAIN files :
          /\ IsFile(files, q)
          /\ fsOp.detail = with_name(q, Versioned(PathName(q), 1))
          /\ files[q].text # files[fsOp.detail].text

\* C4: str_replace on an accepted path returns a not-found result and changes
\* nothing when nothing exists at the path or old is not in the file's content;
\* on a file that holds old it writes the content with old replaced by new to a
\* sibling name_i that did not exist before and leaves everything else, the
\* original file included, as it was.  (On a directory it changes nothing.)
C4_StrReplace ==
    [][HandleStep /\ toolReq.input.command = "str_replace" /\ ReqLocal.ok =>
         LET p    == ReqLocal.local_path
             old  == toolReq.input.old_str
             new  == toolReq.input.new_str
             at   == {i \in 1..(Len(files[p].text) - Len(old) + 1) :
                         SubSeq(files[p].text, i, i + Len(old) - 1) = old}
         IN  IF ~Exists(files, p)
             THEN fsOp'.kind = "File not found" /\ files' = files
             ELSE IF IsDir(files, p) THEN files' = files
             ELSE IF at = {}
             THEN fsOp'.kind = "String not found" /\ files' = files
             ELSE /\ fsOp'.kind = "Created"
                  /\ fsOp'.detail \notin DOMAIN files
                  /\ IsVersionOf(fsOp'.detail, p)
                  /\ DOMAIN files' = DOMAIN files \cup {fsOp'.detail}
                  /\ \A q \in DOMAIN files : files'[q] = files[q]
                  /\ \E i \in at :
                        files'[fsOp'.detail].text =
                            SubSeq(files[p].text, 1, i - 1) \o new
                            \o SubSeq(files[p].text, i + Len(old), Len(files[p].text))]_vars

\* a str_replace has just written the replaced content beside an original that
\* still holds the old string
C4_Witness ==
    /\ fsOp.command = "str_replace"
    /\ fsOp.kind = "Created"
    /\ \E q \in DOMAIN files :
          /\ IsFile(files, q)
          /\ IsVersionOf(fsOp.detail, q)
          /\ files[q].text = <<"a">>
          /\ files[fsOp.detail].text = <<"c">>

-----------------------------------------------------------------------------
(***************************************************************************)
(* Claims about strip_memory_preamble (SpecText)                           *)
(***************************************************************************)
\* 'Let me update the memory first. ' and what follows it in the example
PreambleFirst == <<"LM", "SP", "UPD", "SP", "MEM", "SP", "FIRST", "DOT", "SP">>
CoverageAnswer == <<"COV", "SP", "AND", "SP", "HRS", "DOT">>

\* C10: strip_memory_preamble removes the leading preamble sentence together
\* with its terminating punctuation: 'Let me update the memory first. The
\* product has great coverage and lasts 8 hours.' yields exactly 'The product
\* has great coverage and lasts 8 hours.'
C10_StripsPreambleSentence ==
    (txtPc = "done" /\ txtIn = PreambleFirst \o CoverageAnswer)
        => txtOut = CoverageAnswer

-----------------------------------------------------------------------------
(***************************************************************************)
(* Claims about the stream filter (SpecStream)                             *)
(***************************************************************************)
RECURSIVE Concat(_)
Concat(strings) == IF strings = <<>> THEN <<>> ELSE Head(strings) \o Concat(Tail(strings))

\* the prefaces a turn can open with, as the model wrote them
MetaPrefaces == {StrStrip(p) : p \in {q \in StreamPrefaces : META_MARKER_PATTERN(StrStrip(q))}}

\* C5: when a turn's text opens with a meta-marker preface, the strings handed
\* to the stream callback during that turn, put together, do not contain the
\* preface, however the text was cut into chunks.
C5_PrefaceNeverForwarded ==
    (strm.pc = "done" /\ strm.cb)
        => \A p \in MetaPrefaces :
              StartsWith(StrStrip(strm.text), p) => ~Contains(Concat(filt.calls), p)

\* the chunk a step of the stream delivers, and the text buffered after it
ChunkOf(s, t) == SubSeq(s.text, s.pos + 1, t.pos)
Buffered(f, chunk) == StrStrip(f.preview_buffer \o chunk)

\* C22: while a turn's output is withheld, forwarding to the callback begins
\* at the first chunk after which the buffered text is longer than
\* META_TEXT_THRESHOLD characters or does not match the meta-marker pattern; a
\* buffered text that has grown beyond the threshold is forwarded although it
\* still matches.  (Stated for buffers that hold something to forward.)
C22_ForwardingBegins ==
    [][(NextChunk /\ ~filt.printing_enabled) =>
          LET buf == Buffered(filt, ChunkOf(strm, strm'))
          IN  (buf # <<>> /\ strip_memory_preamble(buf) # <<>>) =>
                  (filt'.printing_enabled
                      <=> (\/ TextLen(buf) > META_TEXT_THRESHOLD
                           \/ ~META_MARKER_PATTERN(buf)))]_vars

\* C23: once the filter has forwarded anything for a turn, every later
\* non-empty chunk of the turn goes to the callback as it arrived, once, in
\* arrival order, and nothing is withheld any more; the next turn starts
\* withholding afresh.
C23_ForwardingContinues ==
    [][/\ (NextChunk /\ filt.calls # <<>>) =>
              /\ filt'.calls = Append(filt.calls, ChunkOf(strm, strm'))
              /\ filt'.printing_enabled
       /\ (EmptyChunk /\ filt.calls # <<>>) => filt'.calls = filt.calls
       /\ NextTurn => /\ filt'.calls = <<>>
                      /\ ~filt'.printing_enabled
                      /\ filt'.skip_initial_meta
                      /\ filt'.preview_buffer = <<>>]_vars

\* a turn has ended whose answer went to the callback in three pieces, after a
\* preface that was withheld
C23_Witness ==
    /\ strm.pc = "done"
    /\ Len(filt.calls) = 3
    /\ filt.calls[1] \o filt.calls[2] \o filt.calls[3] # filt.streamed_parts
    /\ LET later == filt.calls[2] \o filt.calls[3]
       IN  SubSeq(strm.text, Len(strm.text) - Len(later) + 1, Len(strm.text)) = later

-----------------------------------------------------------------------------
(***************************************************************************)
(* Claims about the agent loop (SpecAgent)                                 *)
(***************************************************************************)
\* the loop has run out of iterations and returned
AtBound == agent.pc = "done" /\ agent.exit = "bound"

IsSuffix(s, t) == Len(s) <= Len(t) /\ SubSeq(t, Len(t) - Len(s) + 1, Len(t)) = s

RejectedPath(tool_input) ==
    \/ PathArg(tool_input, IF tool_input.command = "view" THEN <<Sep, MemWord>> ELSE <<>>) = <<>>
    \/ \E i \in DOMAIN tool_input.path : tool_input.has_path /\ tool_input.path[i] = DotDot

\* the file store after the first k tool calls of the turn
StoreAfter(k) ==
    HandleAll(files, SessionMemoryDir(AgentSession), SubSeq(agent.tool_uses, 1, k), <<>>).files

\* C14: when the tool calls of a model turn are run, a call whose path is
\* rejected by validation gets an "Error: ..." string as its result, leaves the
\* file store as it was, and nothing is raised: all the calls have their result
\* in the user turn that is appended, and the loop goes on to its next model turn
\* (or returns, when the iteration bound is reached).
C14_RejectedPathIsToolResult ==
    [][HandleToolCalls =>
          /\ Len(agent'.tool_results) = Len(agent.tool_uses)
          /\ agent'.pc = "call" /\ agent'.exit = ""
          /\ agent'.iter_idx = agent.iter_idx + 1
          /\ \A k \in 1..Len(agent.tool_uses) :
                RejectedPath(agent.tool_uses[k].input) =>
                    /\ agent'.tool_results[k].content[1] = "Error"
                    /\ agent'.tool_results[k].content[2]
                           \in {"Path cannot be empty", "Path traversal not allowed",
                                "Path escapes memory directory"}
                    /\ StoreAfter(k) = StoreAfter(k - 1)]_vars

\* a turn's calls were run, the first two rejected, the third written, and a
\* model turn follows
C14_Witness ==
    /\ agent.pc = "call" /\ LoopContinues(agent)
    /\ Len(agent.tool_results) = 3
    /\ agent.tool_results[1].content = <<"Error", "Path traversal not allowed">>
    /\ agent.tool_results[2].content = <<"Error", "Path cannot be empty">>
    /\ agent.tool_results[3].content[1] # "Error"

\* the tool_use blocks among the content blocks of a message
RECURSIVE ToolUseBlocks(_)
ToolUseBlocks(content) ==
    IF content = <<>> THEN <<>>
    ELSE (IF Head(content).type = "tool_use" THEN <<Head(content)>> ELSE <<>>)
         \o ToolUseBlocks(Tail(content))

\* what the k-th tool call of the turn returns, run once on what the calls
\* before it left
ResultOf(k) ==
    LET out == handle(StoreAfter(k - 1), SessionMemoryDir(AgentSession), agent.tool_uses[k].input)
    IN  <<out.kind, out.detail>>

\* C24: the message history starts with the user message and its roles
\* alternate; a model turn with k tool calls is appended as one assistant turn,
\* and the running of the calls appends right after it one user turn with
\* exactly k tool results, in the order the calls were emitted, each with the id
\* of its call; every call is run once, one after the other.
C24_History ==
    /\ [](agent.pc # "idle" =>
             /\ agent.messages # <<>>
             /\ agent.messages[1] = [role |-> "user", content |-> <<UserMessage>>]
             /\ \A i \in DOMAIN agent.messages :
                   agent.messages[i].role = IF i % 2 = 1 THEN "user" ELSE "assistant")
    /\ [][/\ ModelTurnTools =>
                /\ Len(agent'.messages) = Len(agent.messages) + 1
                /\ SubSeq(agent'.messages, 1, Len(agent.messages)) = agent.messages
                /\ ToolUseBlocks(agent'.messages[Len(agent'.messages)].content)
                       = agent'.tool_uses
                /\ agent'.tool_uses # <<>>
                /\ files' = files
          /\ HandleToolCalls =>
                LET n == Len(agent.messages)
                    k == Len(agent.tool_uses)
                    calls == ToolUseBlocks(agent.messages[n].content)
                    results == agent'.messages[n + 1].content
                IN  /\ Len(agent'.messages) = n + 1
                    /\ SubSeq(agent'.messages, 1, n) = agent.messages
                    /\ agent.messages[n].role = "assistant"
                    /\ agent'.messages[n + 1].role = "user"
                    /\ Len(calls) = k /\ Len(results) = k
                    /\ \A j \in 1..k :
                          /\ results[j].type = "tool_result"
                          /\ results[j].tool_use_id = calls[j].id
                          /\ results[j].content = ResultOf(j)
                    /\ files' = StoreAfter(k)]_vars

\* the history after two model turns with tool calls: five messages, the last
\* one the three results of the second turn's three calls, whose second call
\* was a delete without a path
C24_Witness ==
    /\ agent.pc = "call"
    /\ Len(agent.messages) = 5
    /\ Len(agent.messages[5].content) = 3
    /\ Len(ToolUseBlocks(agent.messages[4].content)) = 3
    /\ Len(agent.messages[4].content) = 4
    /\ agent.messages[5].content[2].tool_use_id = <<2, 2>>
    /\ agent.messages[5].content[3].content[1] = "Created"

\* C25: the loop ends at the first model turn that requests no tool call: no
\* tool is run, the history is not extended, no model call follows, and the
\* answer is assembled from the meaningful texts collected up to and including
\* that turn; the model is never called more than max_iterations times.
C25_EndsAtFirstTurnWithoutTools ==
    /\ [](agent.pc # "idle" => agent.model_calls <= agent.max_iterations)
    /\ [][/\ ModelTurnFinal =>
                /\ agent'.pc = "done" /\ agent'.exit = "final"
                /\ agent'.model_calls = agent.model_calls + 1
                /\ agent'.messages = agent.messages
                /\ agent'.tool_uses = <<>>
                /\ agent'.tool_results = agent.tool_results
                /\ files' = files
                /\ agent'.all_meaningful_texts \in
                       {agent.all_meaningful_texts,
                        Append(agent.all_meaningful_texts, agent'.last_step_text)}
                /\ agent'.result = _assemble_final_response(agent'.all_meaningful_texts,
                                                            agent'.last_step_text)
          /\ agent.pc = "done" => agent' = agent]_vars

\* the loop ended at its second model turn, the first one without tool calls,
\* with the text of both turns collected
C25_Witness ==
    /\ agent.pc = "done" /\ agent.exit = "final"
    /\ agent.model_calls = 2
    /\ Len(agent.messages) = 3
    /\ Len(agent.all_meaningful_texts) = 2
    /\ agent.all_meaningful_texts[2] = agent.last_step_text

\* additional is a near-duplicate of final: it is contained in it, or one of its
\* two leading sentences is
NearDuplicate(final, additional) ==
    \/ Contains(final, additional)
    \/ LET sentences == FirstTwo(SplitDotSpace(additional, <<>>))
       IN  \E k \in DOMAIN sentences : Contains(final, sentences[k])

\* the answer as it stands before the i-th collected text is looked at
FinalBefore(all_texts, i) == AddTexts(all_texts[1], SubSeq(all_texts, 2, i - 1))

\* C26: the answer starts with the first collected text, and every later
\* collected text that is not a near-duplicate of the answer so far appears in
\* the answer, whatever its length.
C26_LaterTextsAppear ==
    (agent.pc = "done" /\ agent.all_meaningful_texts # <<>>) =>
        LET all_texts == agent.all_meaningful_texts
        IN  /\ agent.result = strip_memory_preamble(StrStrip(
                                  FinalBefore(all_texts, Len(all_texts) + 1)))
            /\ \A i \in 2..Len(all_texts) :
                  ~NearDuplicate(FinalBefore(all_texts, i), all_texts[i])
                      => Contains(agent.result, all_texts[i])

\* a model turn has been streamed
ModelTurn == ModelTurnFinal \/ ModelTurnTools

\* the turn's text is at most 160 characters long and matches the pattern
ShortMeta(text) == TextLen(text) <= META_TEXT_THRESHOLD /\ META_MARKER_PATTERN(text)

\* C27 as stated: a turn whose whole text, after preamble stripping, is at most
\* 160 characters long and matches the meta-marker pattern adds nothing to the
\* collected texts, and a turn whose text is longer or does not match is always
\* collected.
C27_MetaOnlyTurnDiscarded ==
    [][ModelTurn =>
          IF ShortMeta(agent'.last_step_text)
          THEN agent'.all_meaningful_texts = agent.all_meaningful_texts
          ELSE agent'.all_meaningful_texts
                   = Append(agent.all_meaningful_texts, agent'.last_step_text)]_vars

\* C27, amended: the same, for a turn that has text; a turn without text (tool
\* calls only, or a preamble and nothing else) adds nothing either.
C27_MetaOnlyTurnDiscardedAmended ==
    [][ModelTurn =>
          IF agent'.last_step_text = <<>> \/ ShortMeta(agent'.last_step_text)
          THEN agent'.all_meaningful_texts = agent.all_meaningful_texts
          ELSE agent'.all_meaningful_texts
                   = Append(agent.all_meaningful_texts, agent'.last_step_text)]_vars

\* a turn's long text that matches the pattern was collected, and the short
\* matching text of the turn after it was not
C27_Witness ==
    /\ agent.model_calls = 2
    /\ agent.last_step_text # <<>> /\ ShortMeta(agent.last_step_text)
    /\ Len(agent.all_meaningful_texts) = 1
    /\ META_MARKER_PATTERN(agent.all_meaningful_texts[1])
    /\ TextLen(agent.all_meaningful_texts[1]) > META_TEXT_THRESHOLD

-----------------------------------------------------------------------------
(***************************************************************************)
(* Claims about the session store (SpecSession, SpecListIndex)             *)
(***************************************************************************)
\* load() through a SessionState made afresh for the session id
FreshLoad(fs, session_id) == load(fs, SessionState(session_id))

\* C7: whatever the session record, after update(current_product=X) through an
\* object of the session, a load through a fresh SessionState of the same
\* session id returns a record whose current_product is X and whose turn_count
\* is one more than that of the record the updating object held before.
C7_UpdateRoundTrip ==
    [][\A i \in Instances : \A kwargs \in UpdateKwargs :
          (IsDict(load(files, inst[i])) /\ Update(i, kwargs)
              /\ kwargs.current_product # Absent)
              => /\ FreshLoad(files', inst[i].session_id).current_product
                        = kwargs.current_product
                 /\ FreshLoad(files', inst[i].session_id).turn_count
                        = load(files, inst[i]).turn_count + 1]_vars

\* update(current_product="X") has run twice on a session and a fresh load
\* returns what the updating object holds
C7_Witness ==
    \E i \in Instances :
        /\ inst[i] # NoInst
        /\ inst[i].cache # <<>>
        /\ IsDict(inst[i].cache[1])
        /\ inst[i].cache[1].current_product = "X"
        /\ inst[i].cache[1].turn_count = 2
        /\ FreshLoad(files, inst[i].session_id) = inst[i].cache[1]

\* C37: after update() through an object of a session has written the record,
\* load() through every live SessionState object of that session id returns
\* the record that is on disk, an object that loaded before the update
\* included.
C37_EveryInstanceSeesUpdate ==
    [][\A i \in Instances : \A kwargs \in UpdateKwargs :
          (IsDict(load(files, inst[i])) /\ Update(i, kwargs))
              => \A j \in Instances :
                    (inst'[j] # NoInst /\ inst'[j].session_id = inst[i].session_id)
                        => load(files', inst'[j]) = FreshLoad(files', inst[i].session_id)]_vars

\* C8: the list index starts empty; every save_list_index call adds one entry
\* (the items, topic and source file it was given) after the entries that were
\* there, which stay as they were, and makes it the current list; nothing else
\* changes the index.  So after N calls the index holds N entries and
\* current_list_id is the id of the Nth.
C8_ListIndexAppendOnly ==
    /\ \A sid \in SessionIds : get_list_index(files, sid) = EmptyListIndex
    /\ [][\/ \A sid \in SessionIds :
                get_list_index(files', sid) = get_list_index(files, sid)
          \/ \E i \in Instances, items \in ListItems, topic \in ListTopics,
                source_file \in SourceFiles :
                LET sid    == inst[i].session_id
                    before == get_list_index(files, sid)
                    after  == get_list_index(files', sid)
                    n      == Len(before.lists)
                IN  /\ inst[i] # NoInst
                    /\ Len(after.lists) = n + 1
                    /\ SubSeq(after.lists, 1, n) = before.lists
                    /\ after.lists[n + 1].items = items
                    /\ after.lists[n + 1].topic = topic
                    /\ after.lists[n + 1].source_file = source_file
                    /\ after.current_list_id = after.lists[n + 1].id
                    /\ \A other \in SessionIds \ {sid} :
                          get_list_index(files', other) = get_list_index(files, other)]_vars

\* two lists have been registered for a session, the second one being current
C8_Witness ==
    \E sid \in SessionIds :
        LET idx == get_list_index(files, sid)
        IN  /\ Len(idx.lists) = 2
            /\ idx.lists[1].id = "list_1"
            /\ idx.lists[1].items # idx.lists[2].items
            /\ idx.current_list_id = idx.lists[2].id

\* C19: a delete call on an accepted path removes nothing and returns a failure
\* result when the path is the session root, names nothing that exists, or
\* names a directory; otherwise it removes the named file and nothing else, and
\* a view of the same path then reports that the path is not found.
C19_Delete ==
    [][HandleStep /\ toolReq.input.command = "delete" /\ ReqLocal.ok =>
         LET p == ReqLocal.local_path
         IN  IF p = ReqRoot \/ ~Exists(files, p) \/ IsDir(files, p)
             THEN /\ files' = files
                  /\ fsOp'.kind \in {"Cannot delete root", "Not found", "Not a file"}
                  /\ Touched(fsOp') = {}
             ELSE /\ fsOp'.kind = "Deleted"
                  /\ DOMAIN files' = DOMAIN files \ {p}
                  /\ \A q \in DOMAIN files' : files'[q] = files[q]
                  /\ fsOp'.removes = {p}
                  /\ _view(files', ReqRoot,
                           ToolInput("view", TRUE, ReqPath, <<>>, <<>>, <<>>)).kind
                       = "Path not found"]_vars

\* a delete has just removed a file while another file stays in the store
C19_Witness ==
    /\ fsOp.command = "delete"
    /\ fsOp.kind = "Deleted"
    /\ fsOp.detail \notin DOMAIN files
    /\ \E q \in DOMAIN files : IsFile(files, q)

\* C20: a create call whose content is larger than MAX_MEMORY_FILE_SIZE bytes
\* returns the too-large error and leaves the file store as it was: no file, no
\* name_i version and no parent directory appears.  Content of at most
\* MAX_MEMORY_FILE_SIZE bytes is written (on an accepted path whose parent
\* directories can be made).
C20_CreateSizeCeiling ==
    [][HandleStep /\ toolReq.input.command = "create" =>
         IF ByteLen(toolReq.input.file_text) > MAX_MEMORY_FILE_SIZE
         THEN /\ files' = files
              /\ Touched(fsOp') = {}
              /\ fsOp'.kind = "Error"
              /\ ReqLocal.ok => fsOp'.detail = "File too large"
         ELSE (ReqLocal.ok /\ ~MkdirFails(files, Parent(ReqLocal.local_path)))
                 => /\ fsOp'.kind = "Created"
                    /\ fsOp'.detail \notin DOMAIN files
                    /\ IsFile(files', fsOp'.detail)
                    /\ files'[fsOp'.detail].text = toolReq.input.file_text
                    /\ ByteLen(files'[fsOp'.detail].text) <= MAX_MEMORY_FILE_SIZE]_vars

\* a create has just been refused as too large, in a store that holds a file of
\* exactly MAX_MEMORY_FILE_SIZE bytes written by an earlier create
C20_Witness ==
    /\ fsOp.command = "create"
    /\ fsOp.kind = "Error"
    /\ fsOp.detail = "File too large"
    /\ \E q \in DOMAIN files :
          IsFile(files, q) /\ ByteLen(files[q].text) = MAX_MEMORY_FILE_SIZE

\* C16: whatever Session Store operations are made on a session id (load,
\* update, save, clear, reloads by fresh objects), the turn_count that is
\* persisted for it never decreases.
C16_TurnCountNeverDecreases ==
    [][\A sid \in SessionIds :
          (IsDict(FreshLoad(files, sid)) /\ IsDict(FreshLoad(files', sid)))
              => FreshLoad(files', sid).turn_count >= FreshLoad(files, sid).turn_count]_vars

\* C17: the conversation history of the persisted record stays below a fixed
\* length however many update calls are made (MaxTurns of them here): older
\* entries are dropped and only a tail is kept.
C17_HistoryBounded ==
    \A sid \in SessionIds :
        IsDict(FreshLoad(files, sid))
            => Len(FreshLoad(files, sid).conversation_history) < MaxTurns

\* C18: a load that finds the session file missing, unreadable or holding
\* something that is not a session record returns the default record, and no
\* later update call on the object raises.
C18_LoadNeverRaises ==
    [][\A i \in Instances :
          /\ (/\ Load(i)
              /\ inst[i].cache = <<>>
              /\ ~(/\ ReadsJson(files, _state_path(inst[i]))
                   /\ IsDict(files[_state_path(inst[i])].data[1])))
                 => inst'[i].cache = <<DefaultRecord>>
          /\ \A kwargs \in UpdateKwargs : Update(i, kwargs) => inst'[i].raised = ""]_vars

-----------------------------------------------------------------------------
(***************************************************************************)
(* Claims about ordinal resolution (SpecOrdinal)                           *)
(***************************************************************************)
\* C9: once a list has been registered through save_list_index, a query that
\* names position k of it resolves to the k-th item of that list ('the 2nd one'
\* of Lakme 9to5 Matte, Maybelline SuperStay, Nykaa Matte to Maybelline
\* SuperStay), and a query that names no position resolves to no item.
C9_OrdinalResolution ==
    (ord.op = "resolve" /\ ord.registered # <<>>)
        => /\ ord.query \in 1..Len(ord.registered)
                 => ord.resolved = ord.registered[ord.query]
           /\ ord.query = 0 => ord.resolved = None

-----------------------------------------------------------------------------
(***************************************************************************)
(* Claims about product grouping (SpecGroup)                               *)
(***************************************************************************)
\* the family identifier a record carries: its product line, SKU family or
\* product family
FamilyId(metadata) ==
    Or(metadata.product_line, Or(metadata.sku_family, metadata.product_family))

SameBrandAndFamily(a, b) ==
    /\ a.metadata.brand = b.metadata.brand
    /\ FamilyId(a.metadata) # <<>>
    /\ FamilyId(a.metadata) = FamilyId(b.metadata)

\* the groups as sets of record ids
GroupIds(groups) ==
    { {groups[g].chunks[j].id : j \in 1..Len(groups[g].chunks)} : g \in 1..Len(groups) }

Orderings(s) ==
    {q \in [1..Len(s) -> {s[j] : j \in 1..Len(s)}] : \A j \in 1..Len(s) : \E x \in 1..Len(s) : q[x] = s[j]}

\* C11: get_product_grouping_key gives the same key for the same metadata on
\* every call (also when called again on the metadata dedupe_by_product has
\* written its computed fields to), and in every order of the input records
\* dedupe_by_product puts two records of the same brand and the same family
\* identifier in the same group.
C11_GroupingDeterminism ==
    (grp.pc = "done" /\ ~grp.disabled) =>
        /\ \A j \in 1..Len(grp.items) :
              get_product_grouping_key(grp.items[j].metadata)
                  = grp.items[j].metadata.product_grouping_key
        /\ \A q \in Orderings(grp.retrieved) :
              /\ \A a, b \in {q[j] : j \in 1..Len(q)} :
                    SameBrandAndFamily(a, b) =>
                        \E ids \in GroupIds(dedupe_by_product(q, grp.max_chunks, FALSE).product_chunks) :
                            a.id \in ids /\ b.id \in ids
              /\ GroupIds(dedupe_by_product(q, grp.max_chunks, FALSE).product_chunks)
                     = GroupIds(grp.product_chunks)

\* two records of one product line, a third record between them, grouped together
C11_Witness ==
    /\ grp.pc = "done" /\ ~grp.disabled
    /\ Len(grp.retrieved) = 3
    /\ grp.retrieved[1].id = "r1" /\ grp.retrieved[2].id = "r5" /\ grp.retrieved[3].id = "r2"
    /\ {"r1", "r2"} \in GroupIds(grp.product_chunks)

\* f"{brand}|{name}"
Bar(brand, name) == brand \o <<"|">> \o name

\* the key the tiers give a record
TierKey(metadata) ==
    LET brand == StrStrip(metadata.brand)
        name == Or(metadata.product_name, metadata.title)
        stripped == extract_product_base_name(name)
        category == Or(metadata.leaf_level_category,
                       Or(metadata.sub_category, metadata.category))
    IN  IF FamilyId(metadata) # <<>> THEN Bar(brand, FamilyId(metadata))
        ELSE IF metadata.shade # <<>> /\ ~Contains(name, metadata.shade) THEN Bar(brand, name)
        ELSE IF stripped # name THEN Bar(brand, stripped)
        ELSE IF category # <<>> THEN Bar(brand, Bar(category, name))
        ELSE Bar(brand, name)

\* C29: the grouping key of every record is that of the first tier that
\* applies: brand and family identifier when the record has one; else brand and
\* product name when it has a variant field that the name does not contain;
\* else brand and stripped name when stripping changes the name; else brand,
\* category and the name as it is (brand and name for a record without
\* category).
C29_GroupingKeyTiers ==
    (grp.pc = "done" /\ ~grp.disabled) =>
        \A j \in 1..Len(grp.items) :
            grp.items[j].metadata.product_grouping_key = TierKey(grp.retrieved[j].metadata)

\* the best score among chunks
TopScore(chunks) ==
    CHOOSE s \in {chunks[j].score : j \in 1..Len(chunks)} :
        \A j \in 1..Len(chunks) : chunks[j].score <= s

\* C30: with grouping and capping enabled, a record with the group's highest
\* score is among the records kept for every group, and the product aggregated
\* for the group has that score as its best score and such a record as its best
\* member.
C30_BestMemberKept ==
    (grp.pc = "aggregated" /\ ~grp.disabled) =>
        \A g \in 1..Len(grp.product_chunks) :
            LET group == grp.product_chunks[g]
                top == TopScore(group.chunks)
            IN  /\ \E j \in 1..Len(grp.result) :
                      /\ grp.result[j].metadata.product_grouping_key = group.key
                      /\ grp.result[j].score = top
                /\ \E x \in 1..Len(grp.aggregated) :
                      /\ grp.aggregated[x].grouping_key = group.key
                      /\ grp.aggregated[x].best_score = top
                      /\ grp.aggregated[x].best_item.score = top

Digits == {"0", "1", "2", "3", "4", "5", "6", "7", "8", "9"}

\* the section identifier occurs in the section key, as a whole number when it
\* ends with one
HasSection(section, ident) ==
    \E i \in 0..(Len(section) - Len(ident)) :
        /\ SubSeq(section, i + 1, i + Len(ident)) = ident
        /\ ident[Len(ident)] \in Digits =>
              \/ i + Len(ident) = Len(section)
              \/ section[i + Len(ident) + 1] \notin Digits

\* the priority section types, in their order: overview, performance, issues,
\* ingredients, finish
SectionTypes ==
    << {<<"p", "r", "o", "d", "u", "c", "t">>, <<"s", "e", "c", "-">>},
       {<<"a", "t", "t", "r", "s", ":", ":", "2">>, <<"s", "e", "c", "t", "i", "o", "n", "_", "0", "4">>},
       {<<"a", "t", "t", "r", "s", ":", ":", "1", "1">>, <<"s", "e", "c", "t", "i", "o", "n", "_", "1", "3">>},
       {<<"a", "t", "t", "r", "s", ":", ":", "5">>, <<"s", "e", "c", "t", "i", "o", "n", "_", "0", "7">>},
       {<<"a", "t", "t", "r", "s", ":", ":", "1">>, <<"s", "e", "c", "t", "i", "o", "n", "_", "0", "3">>} >>

OfType(chunk, t) ==
    \E ident \in SectionTypes[t] : HasSection(chunk.metadata._section_key, ident)

\* the records kept for a group
Kept(group) ==
    {grp.result[j] : j \in {x \in 1..Len(grp.result) :
                               grp.result[x].metadata.product_grouping_key = group.key}}

Members(group) == {group.chunks[j] : j \in 1..Len(group.chunks)}

\* C31: from each group the selection keeps exactly min(group size, cap)
\* records, each once and all of them members of the group; a kept record is
\* the highest-score record of a priority section type of the group, or fills
\* a slot by score: no record left out has a higher score.
C31_DiverseSelection ==
    (grp.pc = "done" /\ ~grp.disabled) =>
        /\ \A j, k \in 1..Len(grp.result) : grp.result[j].id = grp.result[k].id => j = k
        /\ \A g \in 1..Len(grp.product_chunks) :
              LET group == grp.product_chunks[g]
                  size == Len(group.chunks)
              IN  /\ Kept(group) \subseteq Members(group)
                  /\ Cardinality(Kept(group))
                         = IF size <= grp.max_chunks THEN size ELSE grp.max_chunks
                  /\ \A c \in Kept(group) :
                        \/ \E t \in 1..Len(SectionTypes) :
                              /\ OfType(c, t)
                              /\ \A d \in Members(group) : OfType(d, t) => d.score <= c.score
                        \/ \A d \in Members(group) \ Kept(group) : d.score <= c.score

\* C32: in pass-through mode dedupe_by_product returns its input records, in
\* their order and number and with their metadata as it was, and aggregation
\* gives one entry for each input record, in input order: no records are merged
\* and none is dropped.
C32_PassThrough ==
    (grp.pc \in {"done", "aggregated"} /\ grp.disabled) =>
        /\ grp.result = grp.retrieved
        /\ grp.items = grp.retrieved
        /\ grp.pc = "aggregated" =>
              /\ Len(grp.aggregated) = Len(grp.retrieved)
              /\ \A j \in 1..Len(grp.retrieved) :
                    /\ grp.aggregated[j].best_item = grp.retrieved[j]
                    /\ grp.aggregated[j].best_score = grp.retrieved[j].score

\* three records of one product line went through in pass-through mode with a
\* cap of one, the best of them last
C32_Witness ==
    /\ grp.pc = "aggregated" /\ grp.disabled /\ grp.max_chunks = 1
    /\ Len(grp.aggregated) = 3
    /\ \A j \in 1..3 : grp.retrieved[j].metadata.product_line = SuperStayInk
    /\ grp.aggregated[3].best_item.id = "r9"


-----------------------------------------------------------------------------
(***************************************************************************)
(* Claims about the current list (SpecCurrentList)                         *)
(***************************************************************************)
\* the places of the index's entries whose id is current_list_id
CurrentEntries(idx) == {k \in 1..Len(idx.lists) : idx.lists[k].id = idx.current_list_id}

\* C21: in every list index reached through save_list_index the ids of the
\* lists are pairwise distinct, and current_list_id, when it is set, is the id
\* of an entry of the index; get_current_list then returns that entry.
C21_ListIdsAndCurrent ==
    /\ [](\A sid \in SessionIds :
             LET idx == get_list_index(files, sid)
             IN  /\ \A j, k \in 1..Len(idx.lists) :
                        idx.lists[j].id = idx.lists[k].id => j = k
                 /\ Truthy(idx.current_list_id) => CurrentEntries(idx) # {})
    /\ [][GetCurrentList("cli") =>
             LET idx == get_list_index(files, inst["cli"].session_id)
             IN  Truthy(idx.current_list_id) =>
                     \E k \in CurrentEntries(idx) : lst'.result = <<idx.lists[k]>>]_vars

\* two lists are registered and get_current_list has returned the second
C21_Witness ==
    /\ lst.result # <<>>
    /\ lst.result[1].id = "list_2"
    /\ Len(get_list_index(files, lst.session_id).lists) = 2
    /\ get_list_index(files, lst.session_id).lists[1].id = "list_1"
    /\ get_list_index(files, lst.session_id).lists[2] = lst.result[1]

\* C28: get_current_list returns the registered entry whose id is
\* current_list_id whenever the index has one, whatever notes there are.  Only
\* when no current list is registered does it return a list read from a note:
\* from session_note.md when that holds items, else from a most recently
\* modified note; and None when the note it looked at last holds no items.
C28_CurrentListSources ==
    [][GetCurrentList("cli") =>
         LET sid == inst["cli"].session_id
             idx == get_list_index(files, sid)
             note == get_note_items(files, sid)
         IN  IF Truthy(idx.current_list_id)
             THEN IF CurrentEntries(idx) # {}
                  THEN \E k \in CurrentEntries(idx) : lst'.result = <<idx.lists[k]>>
                  ELSE lst'.result = <<>>
             ELSE IF note.items # <<>>
             THEN /\ lst'.result # <<>>
                  /\ lst'.result[1].items = note.items
                  /\ lst'.result[1].source_file = "session_note.md"
             ELSE IF lst'.recent = {} THEN lst'.result = <<>>
             ELSE \E q \in lst'.recent :
                     IF ParseNote(files[q].text, None, <<>>).items = <<>>
                     THEN lst'.result = <<>>
                     ELSE /\ lst'.result # <<>>
                          /\ lst'.result[1].items = ParseNote(files[q].text, None, <<>>).items
                          /\ lst'.result[1].source_file = FileName(PathName(q))]_vars

\* get_current_list has returned the registered list in a directory whose
\* session_note.md holds a list of its own
C28_Witness ==
    /\ lst.result # <<>>
    /\ lst.result[1].id = "list_1"
    /\ get_note_items(files, lst.session_id).items # <<>>
    /\ lst.result[1].items # get_note_items(files, lst.session_id).items
-----------------------------------------------------------------------------
(***************************************************************************)
(* Claims about a turn (SpecTurn)                                          *)
(***************************************************************************)
\* the router's outcome is one of the failures of intent resolution
IntentFailed(router) ==
    IF router.template # "ok" THEN TRUE
    ELSE IF router.reply.kind # "json" THEN TRUE
    ELSE ~IsDict(router.reply.value)

\* C12: whenever intent resolution fails (the prompt template cannot be
\* loaded, the router's model call raises, its output is no parseable record),
\* analyze_query_intent returns the default record (requires_retrieval true,
\* resolved_query the original query, every other flag false) and the turn goes
\* on to retrieval: the failure does not abort the turn.
C12_IntentFailureFallsBack ==
    [][(turn.pc = "intent" /\ turn'.pc # "intent" /\ IntentFailed(turn'.router)) =>
          /\ turn'.raised = ""
          /\ turn'.pc = "retrieve"
          /\ turn'.intent.requires_retrieval
          /\ turn'.intent.resolved_query = turn.query
          /\ ~turn'.intent.requires_web_validation
          /\ ~turn'.intent.is_brand_query
          /\ ~turn'.intent.is_followup
          /\ ~turn'.intent.needs_clarification]_vars

\* C13: in a turn that needs retrieval, when the embedding call or the vector
\* search fails the candidate set is empty and the turn returns the "couldn't
\* find relevant products" answer; nothing is raised to the caller.
C13_RetrievalFailureIsEmptyResult ==
    [][(turn.pc = "retrieve" /\ turn'.pc # "retrieve" /\ turn'.search # <<>>) =>
          ((turn'.search.embedding = "raises" \/ turn'.search.index_raises) =>
              /\ turn'.raised = ""
              /\ turn'.pc = "returned"
              /\ turn'.aggregated_products = <<>>
              /\ turn'.answer = "I couldn't find relevant products. Could you try rephrasing?")]_vars

\* C15: when a turn is aborted by an exception, in intent resolution, in
\* retrieval or in the agent loop, the persisted session record is the one
\* from before the turn, and the abort itself changes no file: what the turn's
\* tool calls wrote stays.
C15_AbortKeepsSessionRecord ==
    [][(turn.pc # "raised" /\ turn'.pc = "raised") =>
          /\ files' = files
          /\ FreshLoad(files', AgentSession) = turn'.before[1]]_vars

\* the place of a stage in the turn's record of stages, 0 when it did not run
StageAt(stage) ==
    IF \E j \in 1..Len(turn.stages) : turn.stages[j] = stage
    THEN CHOOSE j \in 1..Len(turn.stages) : turn.stages[j] = stage
    ELSE 0

StageOrder == <<"intent", "embed", "search", "agent", "update">>

\* the intent is off-topic or marks retrieval as not needed
NoRetrievalIntent ==
    /\ turn.intent # <<>>
    /\ \/ turn.intent.intent = "off_topic"
       \/ ~Get(turn.intent, "requires_retrieval", TRUE)

SessionFiles(fs) ==
    [p \in {_state_path(SessionState(AgentSession)), _list_index_path(AgentSession)} |->
        IF Exists(fs, p) THEN <<fs[p]>> ELSE <<>>]

\* C39: no step of the agent loop, whose only file operations are the memory
\* tool calls the model asks for, changes or removes the session's
\* session_state.json or list_index.json.
C39_ToolsLeaveSessionFiles ==
    [][(turn.pc = "agent" /\ turn'.pc = "agent") => SessionFiles(files') = SessionFiles(files)]_vars

\* how many session updates the turn has made
Updates(t) == Cardinality({j \in 1..Len(t.stages) : t.stages[j] = "update"})

\* C40: an invocation of general_product_qna makes at most one session update,
\* and makes it with the answer it returns; an invocation that returns an
\* answer to a valid query makes exactly one, so turn_count is one more than
\* before the turn.
C40_OneUpdatePerAnsweredTurn ==
    /\ [](Updates(turn) <= 1)
    /\ [][(turn.pc \notin {"idle", "returned"} /\ turn'.pc = "returned") =>
              /\ Updates(turn') = 1
              /\ Updates(turn) = 0
              /\ FreshLoad(files', AgentSession).turn_count = turn.before[1].turn_count + 1
              /\ FreshLoad(files', AgentSession).last_query = turn.query]_vars

-----------------------------------------------------------------------------
(***************************************************************************)
(* Claims about the comparison search (SpecCompare)                        *)
(***************************************************************************)
\* the entities in every order
Reorderings(s) ==
    {[j \in 1..Len(s) |-> s[pi[j]]] :
        pi \in {f \in [1..Len(s) -> 1..Len(s)] : \A j, k \in 1..Len(s) : f[j] = f[k] => j = k}}

\* the records of a merged result with their scores, in order
IdsAndScores(results) ==
    [j \in 1..Len(results) |-> <<results[j].product_id, results[j].score>>]

\* C33: the merged result of a comparison search is in non-increasing score
\* order and holds each record id at most once, and its records, their scores
\* and their order are the same in whatever order the entities are searched.
C33_MergedResult ==
    cmp.pc = "done" =>
        /\ \A j, k \in 1..Len(cmp.result) :
              /\ j < k => cmp.result[j].score >= cmp.result[k].score
              /\ cmp.result[j].product_id = cmp.result[k].product_id => j = k
        /\ \A es \in Reorderings(cmp.entities) :
              IdsAndScores(search_for_comparison(es, cmp.base_query, cmp.index))
                  = IdsAndScores(cmp.result)

-----------------------------------------------------------------------------
(***************************************************************************)
(* Claims about serialized turns (SpecSerial)                              *)
(***************************************************************************)
\* the last n entries of a history
LastEntries(history, n) == SubSeq(history, Len(history) - n + 1, Len(history))

\* C35: with one request in flight per session id at most, when no turn of a
\* session is in flight its persisted turn_count is the value from before its
\* turns plus the number of its turns that committed a session update, and the
\* history ends with one entry for each of them, numbered upwards by one;
\* whatever turns of the other session id have run or are running.
C35_SerializedTurnsCount ==
    \A sid \in SessionIds :
        ser[sid].pc = "idle" =>
            LET record == FreshLoad(files, sid)
                n == ser[sid].commits
            IN  /\ record.turn_count = ser[sid].earlier + n
                /\ Len(record.conversation_history) >= n
                /\ \A k \in 1..n :
                      LastEntries(record.conversation_history, n)[k].turn
                          = ser[sid].earlier + k

-----------------------------------------------------------------------------
(***************************************************************************)
(* Claims about the forwarded text of a turn (SpecStream)                  *)
(***************************************************************************)
\* C38: when a turn has ended and text was forwarded to the callback, the
\* forwarded strings, put together and stripped of outer whitespace, are the
\* end of the turn's stripped text: from the first forwarded character on
\* nothing is dropped, doubled or moved, however the text was cut into chunks.
C38_ForwardedIsTheTextsEnd ==
    (strm.pc = "done" /\ strm.cb /\ filt.printing_enabled)
        => IsSuffix(StrStrip(Concat(filt.calls)), StreamedText(filt))

-----------------------------------------------------------------------------
(***************************************************************************)
(* Claims about the two memory tool handlers (SpecHandlers)                *)
(***************************************************************************)
\* the content a successful call was to write, given the file it was aimed at
NewContent(tool_input, original) ==
    IF tool_input.command = "create" THEN tool_input.file_text
    ELSE ReplaceFirst(original.text, tool_input.old_str, tool_input.new_str)

\* C36: in both handlers, a create or str_replace call that succeeds on the
\* path of an existing file leaves that file as it was and writes the new
\* content to a path that did not exist.
C36_BothHandlersVersion ==
    [][\A sid \in SessionIds, tool_input \in CreateInputs \cup StrReplaceInputs :
          LET v == _validate_path(SessionMemoryDir(sid), tool_input.path)
          IN  (/\ v.ok
               /\ IsFile(files, v.local_path)
               /\ fsOp'.sid = sid
               /\ fsOp'.input = tool_input
               /\ fsOp'.kind \in {"Created", "Updated"})
                  => /\ files'[v.local_path] = files[v.local_path]
                     /\ \E w \in fsOp'.writes :
                           /\ w \notin DOMAIN files
                           /\ files'[w].text = NewContent(tool_input, files[v.local_path])]_vars

=============================================================================
